---- MODULE Spec2Model ----
(***************************************************************************)
(* Verification model of the OpenAI-compatible gateway route               *)
(* src/routes/apiV1.js: the keep-alive heartbeat pump of                    *)
(* POST /v1/chat/completions, its standard streaming pipeline (stream      *)
(* chunker, stream translator, error handlers) and the translators they    *)
(* call.                                                                   *)
(*                                                                         *)
(* Two specifications share the response object `res`:                     *)
(*   SpecKeepAlive  the request handled with useKeepAlive = true           *)
(*   SpecStream     the request handled on the standard streaming path     *)
(***************************************************************************)
EXTENDS Integers, Sequences, FiniteSets, TLC

VARIABLES
    \* ---- the response object `res` (both paths)
    resFrames,          \* what has been written to the client, in order
    resEnded,           \* res.writableEnded
    resDestroyed,       \* res.destroyed: the client connection has closed
    resErrored,         \* res has emitted 'error' (a write after end)
    \* ---- keep-alive path, apiV1.js 452-670
    keepAliveTimerId,   \* 0 stands for null
    armedTimers,        \* intervals created by setInterval and not cleared
    nextTimerId,        \* the id the next setInterval returns
    isConnectionClosed,
    ksBuf,              \* keepAliveSseStream: pushed, not yet piped to res
    ksEnded,            \* keepAliveSseStream: push(null) has been called
    ksEndEmitted,       \* keepAliveSseStream: 'end' has been emitted
    esBuf,              \* errorStream of the result.error branch
    esEnded,
    esEndEmitted,
    pushLog,            \* every frame a stream accepted, in push order
    hpc,                \* where the route handler is
    upstreamOpen,       \* the upstream call / body is still held open
    finalData,          \* <<r>>: the upstream response sendFinalResponse repackaged
    obs,                \* what has been observed so far (history)
    \* ---- standard streaming path, apiV1.js 698-1057
    backend,            \* selectedKeyId === 'vertex-ai' ? "vertex" : "gemini"
    objs,               \* the JSON objects the upstream sends (their kinds)
    framing,            \* "concat": o1o2..., "array": [o1,o2,...]
    pending,            \* upstream characters not yet delivered as a chunk
    consumed,           \* number of upstream characters delivered so far
    buffer,             \* the transformer's `buffer`
    extracted,          \* every jsonStr the scan loop has cut out, in order
    splitEsc,           \* a chunk has ended right after a backslash (history)
    phase,              \* where the streamed response is
    \* ---- the route handlers up to the upstream call, apiV1.js 20-88, 384-637
    modelsConfig,       \* Object.keys(modelsConfig): the configured model ids
    webSearchEnabled,   \* setting `web_search` is '1'
    vertexEnabled,      \* vertexProxyService.isVertexEnabled()
    keepAliveEnabled,   \* setting `keepalive` is '1'
    isSafetyEnabled,    \* getWorkerKeySafetySetting(workerApiKey)
    reqStream,          \* openAIRequestBody.stream: "true", "false", "absent"
    requestedModelId,   \* openAIRequestBody.model as sent; <<>> when missing
    bodyModel,          \* openAIRequestBody.model as it is now
    rpc,                \* where the POST /chat/completions handler is
    keepAliveCallback,  \* FALSE stands for null
    resStatus,          \* res.status(...): 0 when not set
    resHeaders,         \* names of the headers set on res
    resBody,            \* <<b>>: the JSON body sent with res.json / res.send
    proxyCall,          \* <<c>>: the call made to a backend proxy
    modelsData,         \* <<ids>>: the ids GET /v1/models has listed
    result,             \* <<r>>: what the awaited proxy call resolved with
    \* ---- transformOpenAiToGemini, apiV1.js 1673-1817
    messages,           \* requestBody.messages
    msgIdx,             \* the index of the message forEach visits next
    toolCallIdToName,   \* the Map; Null where an id has no entry
    contents,           \* the `contents` array built so far
    systemInstruction,  \* <<text>> once a system message has set it
    \* ---- tool-parameter schemas, apiV1.js 98-258, 357-365, 1480-1664, 1826-1842
    schemaIn,           \* tool.function.parameters as the client sent it
    schemaCur,          \* the schema as it is now
    schemaPrev,         \* the schema before the last step
    schemaOps,          \* the steps applied so far, in order
    \* ---- response translators, apiV1.js 1904-2016, 2025-2173
    geminiResponse,     \* the upstream response (or stream chunk) handed in
    completion,         \* <<what transformGeminiResponseToOpenAI returned>>
    chunkFrames,        \* the frames transformGeminiStreamChunk returned
    translated,         \* the translators applied so far
    \* ---- tool function names, apiV1.js 261-369
    fnNames,            \* the names of one tool's declarations, as sent
    nameIdx,            \* the declaration being processed
    usedNames,          \* usedNames of the tool
    outNames,           \* the names written back, in order
    unique,             \* `unique` of the de-duplication loop
    counter,            \* `counter` of the de-duplication loop
    namePc,             \* "next": between declarations; "loop": at the while
    \* ---- POST /v1/embedded, apiV1.js 1112-1134
    epc,                \* where the handler is
    nextArg,            \* <<e>>: next(e) has been called
    \* ---- transformJsonSchemaFields with $ref, visited and depth, 95-258
    document,           \* fnDecl.parameters as the client sent it
    run,                \* <<r>>: what the call returned and the calls it made
    \* ---- the tools of transformOpenAiToGemini, apiV1.js 1480-1664, 1819-1854
    requestTools,       \* requestBody.tools as it is now
    toolsAtCall,        \* <<requestBody.tools when the call was made>>
    functionDeclarations, \* <<the declarations transformOpenAiToGemini built>>
    sanitized,          \* <<what a call of sanitizeToolParameters returned>>
    \* ---- the database service, apiV1.js 1143-1352, 1392-1405
    dbCalls,            \* the calls of the writers, in the order they are made
    invoked,            \* how many of them have been made
    dpc,                \* where each call is
    outcome,            \* how the promise of each call has settled
    tables,             \* the rows of models_config, worker_keys, settings
    tx,                 \* the call whose BEGIN opened the transaction; 0: none
    snapshot,           \* the tables when the open transaction began
    sqlLog              \* the statements handed to runDb, in order

resVars == <<resFrames, resEnded, resDestroyed, resErrored>>
kaVars == <<keepAliveTimerId, armedTimers, nextTimerId, isConnectionClosed,
            ksBuf, ksEnded, ksEndEmitted, esBuf, esEnded, esEndEmitted,
            pushLog, hpc, finalData, obs>>
stVars == <<backend, objs, framing, pending, consumed, buffer, extracted,
            splitEsc, phase>>
rqVars == <<modelsConfig, webSearchEnabled, vertexEnabled, keepAliveEnabled,
            isSafetyEnabled, reqStream, requestedModelId, bodyModel, rpc,
            keepAliveCallback, resStatus, resHeaders, resBody, proxyCall,
            modelsData, result>>
\* what the actions that stream a response leave alone
trVars == <<messages, msgIdx, toolCallIdToName, contents, systemInstruction>>
scVars == <<schemaIn, schemaCur, schemaPrev, schemaOps>>
rsVars == <<geminiResponse, completion, chunkFrames, translated>>
fnVars == <<fnNames, nameIdx, usedNames, outNames, unique, counter, namePc>>
emVars == <<epc, nextArg>>
\* the variables of the parts modelled after the tool function names
dcVars == <<document, run>>
tlVars == <<requestTools, toolsAtCall, functionDeclarations, sanitized>>
dbVars == <<dbCalls, invoked, dpc, outcome, tables, tx, snapshot, sqlLog>>
restVars == <<emVars, dcVars, tlVars, dbVars>>
\* what the handler of /v1/embedded leaves alone besides the request
embeddedFrame == <<trVars, scVars, rsVars, fnVars, dcVars, tlVars, dbVars>>
\* what a document's transformation leaves alone
documentFrame == <<resVars, kaVars, upstreamOpen, stVars, rqVars, trVars,
                   scVars, rsVars, fnVars, emVars, tlVars, dbVars>>
\* what the tools step of the request translator leaves alone
toolsFrame == <<resVars, kaVars, upstreamOpen, stVars, rqVars, trVars,
                scVars, rsVars, fnVars, emVars, dcVars, dbVars>>
\* what the database service leaves alone
dbFrame == <<resVars, kaVars, upstreamOpen, stVars, rqVars, trVars, scVars,
             rsVars, fnVars, emVars, dcVars, tlVars>>
streamFrame == <<rqVars, trVars, scVars, rsVars, fnVars, restVars>>
\* what the route handlers leave alone before the upstream call
requestFrame == <<trVars, scVars, rsVars, fnVars, restVars>>
\* what the request translator leaves alone
translatorFrame == <<resVars, kaVars, upstreamOpen, stVars, modelsConfig,
                     webSearchEnabled, vertexEnabled, keepAliveEnabled,
                     reqStream, bodyModel, rpc, keepAliveCallback, resStatus,
                     resHeaders, resBody, proxyCall, modelsData, result,
                     scVars, rsVars, fnVars, restVars>>
\* what the schema sanitizers leave alone
schemaFrame == <<resVars, kaVars, upstreamOpen, stVars, rqVars, trVars,
                 rsVars, fnVars, restVars>>
\* what the response translators leave alone
responseFrame == <<resVars, kaVars, upstreamOpen, stVars, rqVars, trVars,
                   scVars, fnVars, restVars>>
\* what the name pre-processing leaves alone
namesFrame == <<resVars, kaVars, upstreamOpen, stVars, rqVars, trVars,
                scVars, rsVars, restVars>>
vars == <<resVars, kaVars, upstreamOpen, stVars, rqVars, trVars, scVars,
          rsVars, fnVars, restVars>>

\* ---- bounds of the model
MaxBeats == 2      \* heartbeat frames pushed in one run
MaxStarts == 2     \* calls of startHeartbeat in one run
MaxObjs == 2       \* JSON objects in one upstream body

Null == "<null>"

(***************************************************************************)
(* SSE frames.  Every frame is one string `data: ...\n\n`; the model keeps  *)
(* the fields the claims read.                                             *)
(***************************************************************************)
Frame(type, id, role, content, fin, via) ==
    [type |-> type, id |-> id, role |-> role, content |-> content,
     fin |-> fin, via |-> via, part |-> "whole"]

\* mutant of SseWrite: the frame is handed over in two calls, `data: <json>`
\* and then the blank line
SseWrite_Split(frame) ==
    <<[frame EXCEPT !.part = "head"], [frame EXCEPT !.part = "tail"]>>

\* One push / write call: its argument is the whole text `data: ...\n\n` of
\* one frame (apiV1.js 510, 568-569, 602-603, 662-663), which the stream
\* hands on as one chunk.
SseWrite(frame) == <<frame>>

\* apiV1.js 503-510
KeepAliveFrame == Frame("chunk", "keepalive", Null, Null, Null, "ka")

\* 'data: [DONE]\n\n'
DoneFrame(via) == Frame("done", Null, Null, Null, Null, via)

\* an error payload `data: {"error":{...}}\n\n`
ErrorFrame(errType, via) == Frame("error", Null, Null, errType, Null, via)

\* res.status(500).json({error: ...}): a JSON body, no SSE frame
JsonError500 == Frame("json500", Null, Null, Null, Null, "res")

(***************************************************************************)
(* transformGeminiResponseToOpenAI, apiV1.js 2025-2173.  An upstream        *)
(* response is [cand, block, text, tool, fr]: whether candidates[0] exists, *)
(* whether promptFeedback.blockReason is present, the joined text of the    *)
(* text parts (Null when there is none), whether a functionCall part        *)
(* exists, and candidate.finishReason (Null when absent).                   *)
(***************************************************************************)
FinishReasons == {"STOP", "MAX_TOKENS", "SAFETY", "RECITATION", "TOOL_CALLS",
                  "FINISH_REASON_UNSPECIFIED", "OTHER", "BLOCKLIST", Null}

\* apiV1.js 2085-2098
MapFinishReasonResponse(fr, tool) ==
    IF fr = "STOP" THEN "stop"
    ELSE IF fr = "MAX_TOKENS" THEN "length"
    ELSE IF fr = "SAFETY" \/ fr = "RECITATION" THEN "content_filter"
    ELSE IF fr = "TOOL_CALLS" THEN "tool_calls"
    ELSE IF tool THEN "tool_calls"
    ELSE IF fr # Null /\ fr # "FINISH_REASON_UNSPECIFIED" /\ fr # "OTHER" THEN fr
    ELSE Null

\* mutant of transformGeminiResponseToOpenAI: promptFeedback is not looked at
transformGeminiResponseToOpenAI_BlockIgnored(r) ==
    IF ~r.cand
    THEN [content |-> "Gemini response missing candidates.",
          finish_reason |-> "error", tool_calls |-> FALSE]
    ELSE [content |-> r.text,
          finish_reason |-> MapFinishReasonResponse(r.fr, r.tool),
          tool_calls |-> r.tool]

transformGeminiResponseToOpenAI(r) ==
    IF ~r.cand
    THEN [content |-> IF r.block THEN "Request blocked by Gemini"
                      ELSE "Gemini response missing candidates.",
          finish_reason |-> IF r.block THEN "content_filter" ELSE "error",
          tool_calls |-> FALSE]
    ELSE LET mapped == MapFinishReasonResponse(r.fr, r.tool)
             safety == r.text = Null /\ ~r.tool /\ r.fr = "SAFETY"
         IN  [content |-> IF safety THEN "[Content blocked due to safety settings]"
                          ELSE r.text,
              finish_reason |-> IF safety \/ r.fr = "RECITATION"
                                THEN "content_filter" ELSE mapped,
              tool_calls |-> r.tool]

\* the upstream responses the keep-alive proxy may hand to sendFinalResponse
Responses ==
    { [cand |-> TRUE, block |-> FALSE, text |-> "ok", tool |-> FALSE, fr |-> "STOP"],
      [cand |-> TRUE, block |-> FALSE, text |-> Null, tool |-> TRUE, fr |-> "OTHER"],
      [cand |-> FALSE, block |-> TRUE, text |-> Null, tool |-> FALSE, fr |-> Null] }

(***************************************************************************)
(* Keep-alive path                                                         *)
(***************************************************************************)

\* mutant of ResNotWritable: only res.writableEnded is looked at
ResNotWritable_EndedOnly == resEnded

\* res.writableEnded || res.destroyed || !res.writable, apiV1.js 497, 546, 589
ResNotWritable == resEnded \/ resDestroyed

\* cleanup, apiV1.js 460-466, on a timer id and a set of armed intervals
CleanupTimers(tid, timers) == IF tid # 0 THEN timers \ {tid} ELSE timers

\* the variables cleanup reads and writes
KaState ==
    [tid |-> keepAliveTimerId, timers |-> armedTimers,
     closed |-> isConnectionClosed]

\* mutant of cleanup: the connection is marked closed only inside the `if`
cleanup_ClosedOnlyIfArmed(s) ==
    [tid |-> 0, timers |-> CleanupTimers(s.tid, s.timers),
     closed |-> s.closed \/ s.tid # 0, threw |-> FALSE]

\* cleanup, apiV1.js 460-466: clearInterval is called only on a non-null
\* id, and neither branch can throw
cleanup(s) ==
    [tid |-> 0, timers |-> CleanupTimers(s.tid, s.timers), closed |-> TRUE,
     threw |-> FALSE]

\* cleanup() called from a handler
RunCleanup ==
    LET c == cleanup(KaState)
    IN  /\ keepAliveTimerId' = c.tid
        /\ armedTimers' = c.timers
        /\ isConnectionClosed' = c.closed

\* sendKeepAliveSseChunk, apiV1.js 495-515, run with keepAliveTimerId = tid.
\* A push on a stream that has seen push(null) is refused by the stream,
\* which emits 'error' (handler at 480-483: cleanup).
sendKeepAliveSseChunk(tid, timers) ==
    IF isConnectionClosed \/ ResNotWritable
    THEN [tid |-> 0, timers |-> CleanupTimers(tid, timers), closed |-> TRUE,
          pushed |-> FALSE]
    ELSE IF ksEnded
    THEN [tid |-> 0, timers |-> CleanupTimers(tid, timers), closed |-> TRUE,
          pushed |-> FALSE]
    ELSE [tid |-> tid, timers |-> timers, closed |-> isConnectionClosed,
          pushed |-> TRUE]

Beats == Len(SelectSeq(pushLog, LAMBDA f: f.id = "keepalive"))

DonePushed == \E i \in 1..Len(pushLog): pushLog[i].type = "done"

ConnectionGone == resDestroyed \/ resErrored

\* what a callback run adds to the history
Note(name) ==
    obs \cup (IF ConnectionGone THEN {name \o "AfterClose"} ELSE {})
        \cup (IF DonePushed THEN {name \o "AfterDone"} ELSE {})

ApplyHeartbeat(r, name) ==
    /\ r.pushed => Beats < MaxBeats
    /\ keepAliveTimerId' = r.tid
    /\ armedTimers' = r.timers
    /\ isConnectionClosed' = r.closed
    /\ ksBuf' = IF r.pushed THEN ksBuf \o SseWrite(KeepAliveFrame) ELSE ksBuf
    /\ pushLog' = IF r.pushed THEN Append(pushLog, KeepAliveFrame) ELSE pushLog
    /\ obs' = Note(name)

\* mutant of StartHeartbeat: the interval is armed, no frame is sent at once
StartHeartbeat_NoImmediate ==
    /\ hpc \in {"awaitProxy", "returnedKeepAlive"}
    /\ nextTimerId <= MaxStarts
    /\ nextTimerId' = nextTimerId + 1
    /\ keepAliveTimerId' = nextTimerId
    /\ armedTimers' = armedTimers \cup {nextTimerId}
    /\ obs' = Note("start")
    /\ UNCHANGED <<resVars, isConnectionClosed, ksBuf, pushLog, ksEnded,
                   ksEndEmitted, esBuf, esEnded, esEndEmitted, hpc, finalData,
                   upstreamOpen, stVars>>
    /\ UNCHANGED streamFrame

\* keepAliveCallback.startHeartbeat, apiV1.js 534-538
StartHeartbeat ==
    /\ hpc \in {"awaitProxy", "returnedKeepAlive"}
    /\ nextTimerId <= MaxStarts
    /\ nextTimerId' = nextTimerId + 1
    /\ ApplyHeartbeat(sendKeepAliveSseChunk(nextTimerId,
                                            armedTimers \cup {nextTimerId}),
                      "start")
    /\ UNCHANGED <<resVars, ksEnded, ksEndEmitted, esBuf, esEnded, esEndEmitted,
                   hpc, finalData, upstreamOpen, stVars>>
    /\ UNCHANGED streamFrame

\* an interval created at apiV1.js 536 fires
TimerTick ==
    /\ \E t \in armedTimers:
          ApplyHeartbeat(sendKeepAliveSseChunk(keepAliveTimerId, armedTimers),
                         "tick")
    /\ UNCHANGED <<resVars, nextTimerId, ksEnded, ksEndEmitted, esBuf, esEnded,
                   esEndEmitted, hpc, finalData, upstreamOpen, stVars>>
    /\ UNCHANGED streamFrame

\* keepAliveCallback.stopHeartbeat, apiV1.js 539-542
StopHeartbeat ==
    /\ hpc \in {"awaitProxy", "returnedKeepAlive"}
    /\ RunCleanup
    /\ obs' = Note("stop")
    /\ UNCHANGED <<resVars, nextTimerId, ksBuf, ksEnded, ksEndEmitted, esBuf,
                   esEnded, esEndEmitted, pushLog, hpc, finalData, upstreamOpen,
                   stVars>>
    /\ UNCHANGED streamFrame

\* mutant of CompleteChunk: the delta carries the content of choices[0] of
\* an upstream response without text as it is (null), and no role
CompleteChunk_RawDelta(r) ==
    Frame("chunk", "chatcmpl", Null, transformGeminiResponseToOpenAI(r).content,
          "stop", "ka")

\* the chunk sendFinalResponse builds, apiV1.js 551-566
CompleteChunk(r) ==
    LET o == transformGeminiResponseToOpenAI(r)
    IN  Frame("chunk", "chatcmpl", "assistant",
              IF o.content = Null \/ o.content = "" THEN "" ELSE o.content,
              IF o.finish_reason = Null THEN "stop" ELSE o.finish_reason,
              "ka")

\* mutant of PushAndEnd: the stream is not ended with push(null)
PushAndEnd_NoEof(frame) ==
    /\ ksBuf' = ksBuf \o <<frame, DoneFrame("ka")>>
    /\ pushLog' = pushLog \o <<frame, DoneFrame("ka")>>
    /\ UNCHANGED <<ksEnded, keepAliveTimerId, armedTimers, isConnectionClosed>>

\* The three pushes that close keepAliveSseStream (568-570, 602-604): a
\* frame, 'data: [DONE]\n\n', null.  Pushes on an ended stream are refused
\* and the stream's 'error' handler runs cleanup.
PushAndEnd(frame) ==
    IF ksEnded
    THEN /\ keepAliveTimerId' = 0
         /\ armedTimers' = CleanupTimers(keepAliveTimerId, armedTimers)
         /\ isConnectionClosed' = TRUE
         /\ UNCHANGED <<ksBuf, ksEnded, pushLog>>
    ELSE /\ ksBuf' = ksBuf \o SseWrite(frame) \o SseWrite(DoneFrame("ka"))
         /\ pushLog' = pushLog \o <<frame, DoneFrame("ka")>>
         /\ ksEnded' = TRUE
         /\ UNCHANGED <<keepAliveTimerId, armedTimers, isConnectionClosed>>

\* keepAliveCallback.sendFinalResponse, apiV1.js 543-585
SendFinalResponse ==
    /\ hpc \in {"awaitProxy", "returnedKeepAlive"}
    /\ \E r \in Responses:
          /\ obs' = Note("final")
          /\ upstreamOpen' = FALSE
          /\ IF ResNotWritable
             THEN UNCHANGED <<keepAliveTimerId, armedTimers, isConnectionClosed,
                              ksBuf, ksEnded, pushLog, finalData>>
             ELSE /\ PushAndEnd(CompleteChunk(r))
                  /\ finalData' = IF ksEnded THEN finalData ELSE <<r>>
    /\ UNCHANGED <<resVars, nextTimerId, ksEndEmitted, esBuf, esEnded,
                   esEndEmitted, hpc, stVars>>
    /\ UNCHANGED streamFrame

\* keepAliveCallback.sendError, apiV1.js 586-614
SendError ==
    /\ hpc \in {"awaitProxy", "returnedKeepAlive"}
    /\ obs' = Note("error")
    /\ upstreamOpen' = FALSE
    /\ IF ResNotWritable
       THEN UNCHANGED <<keepAliveTimerId, armedTimers, isConnectionClosed,
                        ksBuf, ksEnded, pushLog>>
       ELSE PushAndEnd(ErrorFrame("upstream_error", "ka"))
    /\ UNCHANGED <<resVars, nextTimerId, ksEndEmitted, esBuf, esEnded,
                   esEndEmitted, hpc, finalData, stVars>>
    /\ UNCHANGED streamFrame

\* the proxy's promise settles with result.error: apiV1.js 640-670
ProxyReturnsError ==
    /\ hpc = "awaitProxy"
    /\ hpc' = "returnedError"
    /\ upstreamOpen' = FALSE
    \* keepAliveCallback.stopHeartbeat()
    /\ keepAliveTimerId' = 0
    /\ armedTimers' = CleanupTimers(keepAliveTimerId, armedTimers)
    /\ isConnectionClosed' = TRUE
    \* errorStream.pipe(res); push(error); push([DONE]); push(null)
    /\ esBuf' = SseWrite(ErrorFrame("upstream_error", "es"))
                   \o SseWrite(DoneFrame("es"))
    /\ esEnded' = TRUE
    /\ pushLog' = pushLog \o <<ErrorFrame("upstream_error", "es"), DoneFrame("es")>>
    /\ obs' = Note("resultError")
    /\ UNCHANGED <<resVars, nextTimerId, ksBuf, ksEnded, ksEndEmitted,
                   esEndEmitted, finalData, stVars>>
    /\ UNCHANGED streamFrame

\* the proxy's promise settles with result.isKeepAlive: apiV1.js 686-692
ProxyReturnsKeepAlive ==
    /\ hpc = "awaitProxy"
    /\ hpc' = "returnedKeepAlive"
    /\ UNCHANGED <<resVars, keepAliveTimerId, armedTimers, nextTimerId,
                   isConnectionClosed, ksBuf, ksEnded, ksEndEmitted, esBuf,
                   esEnded, esEndEmitted, pushLog, finalData, obs, upstreamOpen,
                   stVars>>
    /\ UNCHANGED streamFrame

\* One chunk flows through a pipe into res (apiV1.js 524, 661).  A write on
\* an ended response is refused: res emits 'error' (474-477: cleanup).
PipeWrite(frame) ==
    IF resEnded
    THEN /\ resErrored' = TRUE
         /\ keepAliveTimerId' = 0
         /\ armedTimers' = CleanupTimers(keepAliveTimerId, armedTimers)
         /\ isConnectionClosed' = TRUE
         /\ UNCHANGED <<resFrames, resEnded, resDestroyed>>
    ELSE /\ resFrames' = Append(resFrames, frame)
         /\ UNCHANGED <<resEnded, resDestroyed, resErrored, keepAliveTimerId,
                        armedTimers, isConnectionClosed>>

\* keepAliveSseStream.pipe(res), apiV1.js 524: the next buffered chunk
KeepAlivePipeData ==
    /\ hpc # "idle"
    /\ ksBuf # <<>>
    /\ ~resDestroyed
    /\ PipeWrite(Head(ksBuf))
    /\ ksBuf' = Tail(ksBuf)
    /\ UNCHANGED <<nextTimerId, ksEnded, ksEndEmitted, esBuf, esEnded,
                   esEndEmitted, pushLog, hpc, finalData, obs, upstreamOpen,
                   stVars>>
    /\ UNCHANGED streamFrame

\* keepAliveSseStream emits 'end' (485-488: cleanup) and the pipe ends res
KeepAlivePipeEnd ==
    /\ ksEnded /\ ksBuf = <<>> /\ ~ksEndEmitted
    /\ ~resDestroyed
    /\ ksEndEmitted' = TRUE
    /\ RunCleanup
    /\ resEnded' = TRUE
    /\ UNCHANGED <<resFrames, resDestroyed, resErrored, nextTimerId, ksBuf,
                   ksEnded, esBuf, esEnded, esEndEmitted, pushLog, hpc,
                   finalData, obs, upstreamOpen, stVars>>
    /\ UNCHANGED streamFrame

\* errorStream.pipe(res), apiV1.js 661: the next buffered chunk
ErrorPipeData ==
    /\ esBuf # <<>>
    /\ ~resDestroyed
    \* an 'end' of keepAliveSseStream already queued runs first
    /\ ~(ksEnded /\ ksBuf = <<>> /\ ~ksEndEmitted)
    /\ PipeWrite(Head(esBuf))
    /\ esBuf' = Tail(esBuf)
    /\ UNCHANGED <<nextTimerId, ksBuf, ksEnded, ksEndEmitted, esEnded,
                   esEndEmitted, pushLog, hpc, finalData, obs, upstreamOpen,
                   stVars>>
    /\ UNCHANGED streamFrame

\* errorStream emits 'end' and the pipe ends res
ErrorPipeEnd ==
    /\ esEnded /\ esBuf = <<>> /\ ~esEndEmitted
    /\ ~resDestroyed
    /\ esEndEmitted' = TRUE
    /\ resEnded' = TRUE
    /\ UNCHANGED <<resFrames, resDestroyed, resErrored, keepAliveTimerId,
                   armedTimers, nextTimerId, isConnectionClosed, ksBuf, ksEnded,
                   ksEndEmitted, esBuf, esEnded, pushLog, hpc, finalData, obs,
                   upstreamOpen, stVars>>
    /\ UNCHANGED streamFrame

\* res emits 'close': the client has gone (apiV1.js 469-472: cleanup)
KeepAliveClientClose ==
    /\ hpc # "idle"
    /\ ~resDestroyed
    /\ resDestroyed' = TRUE
    /\ RunCleanup
    /\ UNCHANGED <<resFrames, resEnded, resErrored, nextTimerId, ksBuf, ksEnded,
                   ksEndEmitted, esBuf, esEnded, esEndEmitted, pushLog, hpc,
                   finalData, obs, upstreamOpen, stVars>>
    /\ UNCHANGED streamFrame

StreamIdle ==
    /\ backend = "gemini" /\ objs = <<>> /\ framing = "concat"
    /\ pending = <<>> /\ consumed = 0 /\ buffer = <<>> /\ extracted = <<>>
    /\ splitEsc = FALSE
    /\ phase = "idle"

\* no tool schema is part of this run
SchemaIdle ==
    /\ schemaIn = <<>> /\ schemaCur = <<>> /\ schemaPrev = <<>>
    /\ schemaOps = <<>>

\* no upstream response is being translated in this run
ResponseIdle ==
    /\ geminiResponse = <<>> /\ completion = <<>> /\ chunkFrames = <<>>
    /\ translated = {}

\* no tool declaration is being renamed in this run
NamesIdle ==
    /\ fnNames = <<>> /\ nameIdx = 1 /\ usedNames = {} /\ outNames = <<>>
    /\ unique = <<>> /\ counter = 2 /\ namePc = "next"

ToolCallIds == {"x1", "x2"}

\* transformOpenAiToGemini is not part of this run
TranslatorIdle ==
    /\ messages = <<>> /\ msgIdx = 1
    /\ toolCallIdToName = [x \in ToolCallIds |-> Null]
    /\ contents = <<>> /\ systemInstruction = <<>>

\* the handlers before the upstream call are not part of this run
RequestIdle ==
    /\ modelsConfig = {} /\ webSearchEnabled = FALSE /\ vertexEnabled = FALSE
    /\ keepAliveEnabled = FALSE /\ isSafetyEnabled = FALSE
    /\ reqStream = "true" /\ requestedModelId = <<>> /\ bodyModel = <<>>
    /\ rpc = "idle" /\ keepAliveCallback = FALSE /\ resStatus = 0
    /\ resHeaders = {} /\ resBody = <<>> /\ proxyCall = <<>>
    /\ modelsData = <<>> /\ result = <<>>

\* POST /v1/embedded is not part of this run
EmbeddedIdle ==
    /\ epc = "idle" /\ nextArg = <<>>

\* none of the parts modelled after the tool function names is part of this run
\* no schema document is transformed in this run
DocumentIdle ==
    /\ document = <<>> /\ run = <<>>

\* the request has no tools in this run
ToolsIdle ==
    /\ requestTools = <<>> /\ toolsAtCall = <<>>
    /\ functionDeclarations = <<>> /\ sanitized = <<>>

\* no writer of the database service is called in this run
DbIdle ==
    /\ dbCalls = <<>> /\ invoked = 0 /\ dpc = <<>> /\ outcome = <<>>
    /\ tables = <<>> /\ tx = 0 /\ snapshot = <<>> /\ sqlLog = <<>>

RestIdle ==
    /\ EmbeddedIdle
    /\ DocumentIdle
    /\ ToolsIdle
    /\ DbIdle

ResInit ==
    /\ resFrames = <<>> /\ resEnded = FALSE /\ resDestroyed = FALSE
    /\ resErrored = FALSE

\* the state at apiV1.js 618, useKeepAlive = true: streams and handlers set
\* up, the upstream call about to be awaited
KeepAliveInit ==
    /\ ResInit
    /\ keepAliveTimerId = 0 /\ armedTimers = {} /\ nextTimerId = 1
    /\ isConnectionClosed = FALSE
    /\ ksBuf = <<>> /\ ksEnded = FALSE /\ ksEndEmitted = FALSE
    /\ esBuf = <<>> /\ esEnded = FALSE /\ esEndEmitted = FALSE
    /\ pushLog = <<>>
    /\ hpc = "awaitProxy"
    /\ upstreamOpen = TRUE
    /\ finalData = <<>>
    /\ obs = {}
    /\ StreamIdle
    /\ RequestIdle
    /\ TranslatorIdle
    /\ SchemaIdle
    /\ ResponseIdle
    /\ NamesIdle
    /\ RestIdle

KeepAliveNext ==
    \/ StartHeartbeat
    \/ TimerTick
    \/ StopHeartbeat
    \/ SendFinalResponse
    \/ SendError
    \/ ProxyReturnsError
    \/ ProxyReturnsKeepAlive
    \/ KeepAlivePipeData
    \/ KeepAlivePipeEnd
    \/ ErrorPipeData
    \/ ErrorPipeEnd
    \/ KeepAliveClientClose

SpecKeepAlive == KeepAliveInit /\ [][KeepAliveNext]_vars

(***************************************************************************)
(* Standard streaming path                                                 *)
(*                                                                         *)
(* The upstream body is a sequence of characters.  The bodies of the model *)
(* are built from four JSON documents (keys abbreviated to keep them       *)
(* short), concatenated or wrapped in a JSON array.                        *)
(***************************************************************************)

\* {"c":[{"t":"a"}]}   a chat chunk: candidates[0] with the text "a"
CandText ==
    <<"{", "\"", "c", "\"", ":", "[", "{", "\"", "t", "\"", ":", "\"", "a",
      "\"", "}", "]", "}">>

\* {"a":"}"}           neither candidates nor text; a brace inside a string
BraceText == <<"{", "\"", "a", "\"", ":", "\"", "}", "\"", "}">>

\* {"t":"\"}[,"}       a bare text fragment; an escaped quote, then } [ ,
EscText ==
    <<"{", "\"", "t", "\"", ":", "\"", "\\", "\"", "}", "[", ",", "\"", "}">>

\* {"done":true}       the sentinel of the alternate backend's framer
DoneText ==
    <<"{", "\"", "d", "o", "n", "e", "\"", ":", "t", "r", "u", "e", "}">>

Kinds == {"cand", "brace", "esc", "done"}

TextOf(kind) ==
    CASE kind = "cand" -> CandText
      [] kind = "brace" -> BraceText
      [] kind = "esc" -> EscText
      [] kind = "done" -> DoneText

RECURSIVE Concat(_)
Concat(ss) == IF ss = <<>> THEN <<>> ELSE Head(ss) \o Concat(Tail(ss))

RECURSIVE Joined(_)
Joined(ks) ==
    IF ks = <<>> THEN <<>>
    ELSE IF Len(ks) = 1 THEN TextOf(ks[1])
    ELSE TextOf(ks[1]) \o <<",">> \o Joined(Tail(ks))

\* the characters of the upstream body
BodyText(ks, fr) ==
    IF fr = "array" THEN <<"[">> \o Joined(ks) \o <<"]">>
    ELSE Concat([i \in 1..Len(ks) |-> TextOf(ks[i])])

\* JSON.parse of a string the scan loop cut out
JsonParse(str) ==
    IF str = CandText
    THEN [ok |-> TRUE, done |-> FALSE, text |-> Null, name |-> "cand",
          cands |-> <<[text |-> "a", tool |-> FALSE, role |-> Null, fr |-> Null]>>]
    ELSE IF str = BraceText
    THEN [ok |-> TRUE, done |-> FALSE, text |-> Null, name |-> "brace",
          cands |-> <<>>]
    ELSE IF str = EscText
    THEN [ok |-> TRUE, done |-> FALSE, text |-> "\"}[,", name |-> "esc",
          cands |-> <<>>]
    ELSE IF str = DoneText
    THEN [ok |-> TRUE, done |-> TRUE, text |-> Null, name |-> "done",
          cands |-> <<>>]
    ELSE [ok |-> FALSE, done |-> FALSE, text |-> Null, name |-> "garbage",
          cands |-> <<>>]

\* apiV1.js 1944-1956
MapFinishReasonChunk(fr, tool) ==
    IF fr = "STOP" THEN "stop"
    ELSE IF fr = "MAX_TOKENS" THEN "length"
    ELSE IF fr = "SAFETY" \/ fr = "RECITATION" THEN "content_filter"
    ELSE IF fr = "TOOL_CALLS" \/ (tool /\ fr # "stop" /\ fr # "length")
    THEN "tool_calls"
    ELSE IF fr # Null /\ fr # "FINISH_REASON_UNSPECIFIED" /\ fr # "OTHER" THEN fr
    ELSE Null

\* transformGeminiStreamChunk on candidates[0], apiV1.js 1904-2016: the
\* frames it returns (none for null)
transformGeminiStreamChunk(c) ==
    LET fin == MapFinishReasonChunk(c.fr, c.tool)
        role == IF c.role # Null /\ (c.text # Null \/ c.tool)
                THEN (IF c.role = "model" THEN "assistant" ELSE c.role)
                ELSE Null
        emptyDelta == role = Null /\ ~c.tool /\ c.text = Null
    IN  IF emptyDelta /\ fin = Null THEN <<>>
        ELSE <<Frame("chunk", "chatcmpl", role, c.text, fin, "tr")>>

\* processGeminiObject, apiV1.js 984-1016
processGeminiObject(o) ==
    IF Len(o.cands) > 0 THEN transformGeminiStreamChunk(o.cands[1])
    ELSE IF o.text # Null /\ o.text # ""
    THEN transformGeminiStreamChunk(
             [text |-> o.text, tool |-> FALSE, role |-> "model", fr |-> Null])
    ELSE <<>>

ScanInit ==
    [start |-> 0, end |-> 0, depth |-> 0, inString |-> FALSE, esc |-> FALSE,
     out |-> <<>>]

\* mutant of InStringStep: a backslash does not escape the next character
InStringStep_NoEscape(st, ch) ==
    IF ch = "\"" THEN [st EXCEPT !.inString = FALSE] ELSE st

\* One character inside a string, apiV1.js 750-759 and 835-844
InStringStep(st, ch) ==
    IF st.esc THEN [st EXCEPT !.esc = FALSE]
    ELSE IF ch = "\\" THEN [st EXCEPT !.esc = TRUE]
    ELSE IF ch = "\"" THEN [st EXCEPT !.inString = FALSE]
    ELSE st

\* One character of the Gemini scan loop, apiV1.js 831-882.  Positions are
\* counted from 1; 0 stands for the -1 of startPos and endPos.
GeminiStep(st, buf, i) ==
    LET ch == buf[i] IN
    IF st.inString THEN InStringStep(st, ch)
    ELSE IF ch = "{"
    THEN [st EXCEPT !.start = IF st.depth = 0 THEN i ELSE @, !.depth = @ + 1]
    ELSE IF ch = "}"
    THEN IF st.depth - 1 = 0 /\ st.start # 0
         THEN [st EXCEPT !.depth = @ - 1, !.end = i, !.start = 0,
                         !.out = Append(@, SubSeq(buf, st.start, i))]
         ELSE [st EXCEPT !.depth = @ - 1]
    ELSE IF ch = "\"" THEN [st EXCEPT !.inString = TRUE]
    ELSE st

RECURSIVE GeminiLoop(_, _, _)
GeminiLoop(st, buf, i) ==
    IF i > Len(buf) THEN st ELSE GeminiLoop(GeminiStep(st, buf, i), buf, i + 1)

\* mutant of GeminiKeep: the buffer is emptied after every scan
GeminiKeep_DropAll(st, buf) == <<>>

\* what the Gemini branch keeps of the buffer, apiV1.js 884-891
GeminiKeep(st, buf) ==
    IF st.start # 0 /\ st.end # 0 /\ st.end > st.start
    THEN SubSeq(buf, st.end + 1, Len(buf))
    ELSE IF st.start # 0 THEN SubSeq(buf, st.start, Len(buf))
    ELSE <<>>

\* the Gemini branch of transform on the buffer, apiV1.js 822-892
GeminiTransform(buf) ==
    LET st == GeminiLoop(ScanInit, buf, 1)
    IN  [out |-> st.out, buffer |-> GeminiKeep(st, buf)]

\* The Vertex scan loop, apiV1.js 746-821 (and 913-959 in flush): after a
\* complete object the buffer is cut and the scan restarts at its beginning.
RECURSIVE VertexLoop(_, _, _)
VertexLoop(st, buf, i) ==
    IF i > Len(buf) THEN [out |-> st.out, buffer |-> buf]
    ELSE LET ch == buf[i] IN
         IF st.inString THEN VertexLoop(InStringStep(st, ch), buf, i + 1)
         ELSE IF ch = "{"
         THEN VertexLoop([st EXCEPT !.start = IF st.depth = 0 THEN i ELSE @,
                                    !.depth = @ + 1], buf, i + 1)
         ELSE IF ch = "}"
         THEN IF st.depth - 1 = 0 /\ st.start # 0
              THEN LET st2 == [st EXCEPT !.depth = @ - 1, !.end = i, !.start = 0,
                                  !.out = Append(@, SubSeq(buf, st.start, i))]
                   IN  IF i < Len(buf)
                       THEN VertexLoop(st2, SubSeq(buf, i + 1, Len(buf)), 1)
                       ELSE [out |-> st2.out, buffer |-> <<>>]
              ELSE VertexLoop([st EXCEPT !.depth = @ - 1], buf, i + 1)
         ELSE IF ch = "\""
         THEN VertexLoop([st EXCEPT !.inString = TRUE], buf, i + 1)
         ELSE VertexLoop(st, buf, i + 1)

VertexTransform(buf) == VertexLoop(ScanInit, buf, 1)

\* the frames the Gemini branch pushes for one jsonStr, apiV1.js 858-865
GeminiFrames(str) ==
    LET o == JsonParse(str) IN IF o.ok THEN processGeminiObject(o) ELSE <<>>

\* the frames the Vertex branch pushes for one jsonStr, apiV1.js 773-800:
\* `data: ${jsonStr}\n\n` unless the string parses to an object with done
VertexFrames(str) ==
    LET o == JsonParse(str)
    IN  IF o.ok /\ o.done THEN <<>>
        ELSE <<Frame("raw", Null, Null, o.name, Null, "tr")>>

\* the frames flush pushes for one jsonStr of the Vertex residue, 937-945
VertexFlushFrames(str) ==
    LET o == JsonParse(str)
    IN  IF ~o.ok \/ o.done THEN <<>>
        ELSE <<Frame("raw", Null, Null, o.name, Null, "tr")>>

\* mutant of GeminiFramesAll: the frames of a later object are put first
RECURSIVE GeminiFramesAll_Reversed(_)
GeminiFramesAll_Reversed(ss) ==
    IF ss = <<>> THEN <<>>
    ELSE GeminiFramesAll_Reversed(Tail(ss)) \o GeminiFrames(Head(ss))

RECURSIVE GeminiFramesAll(_)
GeminiFramesAll(ss) ==
    IF ss = <<>> THEN <<>> ELSE GeminiFrames(Head(ss)) \o GeminiFramesAll(Tail(ss))

RECURSIVE VertexFramesAll(_)
VertexFramesAll(ss) ==
    IF ss = <<>> THEN <<>> ELSE VertexFrames(Head(ss)) \o VertexFramesAll(Tail(ss))

RECURSIVE VertexFlushFramesAll(_)
VertexFlushFramesAll(ss) ==
    IF ss = <<>> THEN <<>>
    ELSE VertexFlushFrames(Head(ss)) \o VertexFlushFramesAll(Tail(ss))

\* streamTransformer.transform on the buffer after `buffer += chunkStr`,
\* apiV1.js 729-899: the strings cut out, the frames pushed, the buffer kept
Transform(be, buf) ==
    IF be = "vertex"
    THEN LET r == VertexTransform(buf)
         IN  [out |-> r.out, frames |-> VertexFramesAll(r.out),
              buffer |-> r.buffer]
    ELSE LET r == GeminiTransform(buf)
         IN  [out |-> r.out, frames |-> GeminiFramesAll(r.out),
              buffer |-> r.buffer]

\* streamTransformer.flush, apiV1.js 901-980: the frames pushed
Flush(be, buf) ==
    (IF buf = <<>> THEN <<>>
     ELSE IF be = "vertex"
     THEN VertexFlushFramesAll(VertexTransform(buf).out)
     ELSE GeminiFrames(buf))
    \o <<DoneFrame("tr")>>

\* res.headersSent: set by the first write
HeadersSent == resFrames # <<>>

\* chunks the pipe streamTransformer -> res writes, or res.write by a handler
ResWrite(frames) ==
    IF resDestroyed \/ resEnded THEN resFrames ELSE resFrames \o frames

KeepAliveIdle ==
    /\ keepAliveTimerId = 0 /\ armedTimers = {} /\ nextTimerId = 1
    /\ isConnectionClosed = FALSE
    /\ ksBuf = <<>> /\ ksEnded = FALSE /\ ksEndEmitted = FALSE
    /\ esBuf = <<>> /\ esEnded = FALSE /\ esEndEmitted = FALSE
    /\ pushLog = <<>> /\ hpc = "idle" /\ finalData = <<>> /\ obs = {}

KindSeqs == UNION {[1..n -> Kinds] : n \in 0..MaxObjs}

\* the state at apiV1.js 698: a successful result of a stream request with
\* result.isKeepAlive unset
StreamInit ==
    /\ ResInit
    /\ KeepAliveIdle
    /\ upstreamOpen = TRUE
    /\ backend \in {"gemini", "vertex"}
    /\ objs \in KindSeqs
    /\ framing \in {"concat", "array"}
    /\ pending = BodyText(objs, framing)
    /\ consumed = 0
    /\ buffer = <<>>
    /\ extracted = <<>>
    /\ splitEsc = FALSE
    /\ phase = "start"
    /\ RequestIdle
    /\ TranslatorIdle
    /\ SchemaIdle
    /\ ResponseIdle
    /\ NamesIdle
    /\ RestIdle

\* geminiResponse.body is not a readable stream, apiV1.js 709-716
BodyNotReadable ==
    /\ phase = "start"
    /\ phase' = "unreadable"
    /\ resFrames' = ResWrite(<<ErrorFrame("proxy_error", "res"), DoneFrame("res")>>)
    /\ resEnded' = TRUE
    /\ upstreamOpen' = FALSE
    /\ UNCHANGED <<resDestroyed, resErrored, kaVars, backend, objs, framing,
                   pending, consumed, buffer, extracted, splitEsc>>
    /\ UNCHANGED streamFrame

\* geminiResponse.body.pipe(streamTransformer).pipe(res), apiV1.js 1028
StartPipe ==
    /\ phase = "start"
    /\ phase' = "piping"
    /\ UNCHANGED <<resVars, kaVars, upstreamOpen, backend, objs, framing,
                   pending, consumed, buffer, extracted, splitEsc>>
    /\ UNCHANGED streamFrame

\* the body delivers its next n characters: streamTransformer.transform
BodyChunk ==
    /\ phase = "piping"
    /\ \E n \in 1..Len(pending):
         LET r == Transform(backend, buffer \o SubSeq(pending, 1, n))
         IN  /\ pending' = SubSeq(pending, n + 1, Len(pending))
             /\ consumed' = consumed + n
             /\ buffer' = r.buffer
             /\ extracted' = extracted \o r.out
             /\ splitEsc' = (splitEsc \/ pending[n] = "\\")
             /\ resFrames' = ResWrite(r.frames)
    /\ UNCHANGED <<resEnded, resDestroyed, resErrored, kaVars, upstreamOpen,
                   backend, objs, framing, phase>>
    /\ UNCHANGED streamFrame

\* the body ends: streamTransformer.flush, then the pipe ends res
BodyEnd ==
    /\ phase = "piping"
    /\ phase' = "ended"
    /\ resFrames' = ResWrite(Flush(backend, buffer))
    /\ resEnded' = TRUE
    /\ upstreamOpen' = FALSE
    /\ UNCHANGED <<resDestroyed, resErrored, kaVars, backend, objs, framing,
                   pending, consumed, buffer, extracted, splitEsc>>
    /\ UNCHANGED streamFrame

\* mutant of OnStreamError: the SSE branch ends the response without [DONE]
OnStreamError_NoDone(errType) ==
    IF ~HeadersSent
    THEN /\ resFrames' = ResWrite(<<JsonError500>>)
         /\ resEnded' = TRUE
    ELSE IF ~resEnded
    THEN /\ resFrames' = ResWrite(<<ErrorFrame(errType, "res")>>)
         /\ resEnded' = TRUE
    ELSE UNCHANGED <<resFrames, resEnded>>

\* the two 'error' handlers, apiV1.js 1030-1043 and 1045-1055
OnStreamError(errType) ==
    IF ~HeadersSent
    THEN /\ resFrames' = ResWrite(<<JsonError500>>)
         /\ resEnded' = TRUE
    ELSE IF ~resEnded
    THEN /\ resFrames' = ResWrite(<<ErrorFrame(errType, "res"), DoneFrame("res")>>)
         /\ resEnded' = TRUE
    ELSE UNCHANGED <<resFrames, resEnded>>

\* geminiResponse.body emits 'error'
BodyError ==
    /\ phase = "piping"
    /\ phase' = "bodyError"
    /\ OnStreamError("upstream_error")
    /\ upstreamOpen' = FALSE
    /\ UNCHANGED <<resDestroyed, resErrored, kaVars, backend, objs, framing,
                   pending, consumed, buffer, extracted, splitEsc>>
    /\ UNCHANGED streamFrame

\* streamTransformer emits 'error'
TransformerError ==
    /\ phase = "piping"
    /\ phase' = "transformError"
    /\ OnStreamError("transform_error")
    /\ UNCHANGED <<resDestroyed, resErrored, kaVars, upstreamOpen, backend,
                   objs, framing, pending, consumed, buffer, extracted, splitEsc>>
    /\ UNCHANGED streamFrame

\* the client goes away: res is destroyed and unpiped; no handler of the
\* standard path listens for it
StreamClientClose ==
    /\ phase \in {"start", "piping"}
    /\ ~resDestroyed
    /\ resDestroyed' = TRUE
    /\ UNCHANGED <<resFrames, resEnded, resErrored, kaVars, upstreamOpen, stVars>>
    /\ UNCHANGED streamFrame

StreamNext ==
    \/ BodyNotReadable
    \/ StartPipe
    \/ BodyChunk
    \/ BodyEnd
    \/ BodyError
    \/ TransformerError
    \/ StreamClientClose

SpecStream == StreamInit /\ [][StreamNext]_vars

(***************************************************************************)
(* The route handlers up to the upstream call                              *)
(*                                                                         *)
(* A model id is the sequence of the pieces its text is made of, so that   *)
(* startsWith, endsWith, includes, replace and the regular expression of   *)
(* the source are computed on it: <<"gemini-2.5-flash-preview",            *)
(* ":non-thinking">> is the id "gemini-2.5-flash-preview:non-thinking".    *)
(***************************************************************************)
startsWith(id, piece) == Len(id) > 0 /\ id[1] = piece

endsWith(id, piece) == Len(id) > 0 /\ id[Len(id)] = piece

includes(id, piece) == \E i \in 1..Len(id): id[i] = piece

\* String.prototype.replace(piece, ''): the first occurrence is taken out
replace(id, piece) ==
    IF ~includes(id, piece) THEN id
    ELSE LET i == CHOOSE k \in 1..Len(id):
                     id[k] = piece /\ \A j \in 1..(k - 1): id[j] # piece
         IN  SubSeq(id, 1, i - 1) \o SubSeq(id, i + 1, Len(id))

\* /^gemini-[2-9]\.\d/.test(modelId)
IsGemini2Plus(id) ==
    Len(id) > 0 /\ id[1] \in {"gemini-2.0-flash", "gemini-2.5-flash-preview"}

\* the model ids an administrator may have configured
ConfigKeys ==
    { <<"gemini-1.5-pro">>,
      <<"gemini-2.0-flash">>,
      <<"gemini-2.5-flash-preview">>,
      <<"gemini-2.0-flash", "-search">>,
      <<"gemini-2.5-flash-preview", ":non-thinking">> }

\* vertexProxyService.getVertexSupportedModels()
VertexModels == { <<"[v]", "gemini-2.5-pro">> }

\* GET /v1/models, apiV1.js 20-88: the ids of modelsData
ListedSearchModels(cfg, web) ==
    IF web
    THEN {Append(k, "-search") :
             k \in {m \in cfg: IsGemini2Plus(m) /\ ~endsWith(m, "-search")}}
    ELSE {}

ListedNonThinkingModels(cfg) ==
    {Append(k, ":non-thinking") :
        k \in {m \in cfg: /\ includes(m, "gemini-2.5-flash-preview")
                          /\ ~endsWith(m, ":non-thinking")}}

ModelsData(cfg, web, vx) ==
    cfg \cup ListedSearchModels(cfg, web) \cup ListedNonThinkingModels(cfg)
        \cup (IF vx THEN VertexModels ELSE {})

\* mutant of EnabledModels: the search versions are left out
EnabledModels_NoSearch(cfg, web, vx) ==
    cfg \cup {Append(k, ":non-thinking") :
                 k \in {m \in cfg: /\ includes(m, "gemini-2.5-flash-preview")
                                   /\ ~endsWith(m, ":non-thinking")}}
        \cup (IF vx THEN VertexModels ELSE {})

\* POST /v1/chat/completions, apiV1.js 392-414: enabledModels
EnabledModels(cfg, web, vx) ==
    LET searchModels ==
            {Append(k, "-search") :
                k \in {m \in cfg: IsGemini2Plus(m) /\ ~endsWith(m, "-search")}}
        nonThinkingModels ==
            {Append(k, ":non-thinking") :
                k \in {m \in cfg: /\ includes(m, "gemini-2.5-flash-preview")
                                  /\ ~endsWith(m, ":non-thinking")}}
        vertexModels == VertexModels
    IN  cfg \cup (IF web THEN searchModels ELSE {}) \cup nonThinkingModels
            \cup (IF vx THEN vertexModels ELSE {})

enabledModels == EnabledModels(modelsConfig, webSearchEnabled, vertexEnabled)

\* the ids a client may send: every id some configuration lists, an id no
\* configuration lists, and <<>> for a missing `model`
RequestIds ==
    UNION {ModelsData(c, TRUE, TRUE) : c \in SUBSET ConfigKeys}
        \cup {<<"gpt-4">>, <<>>}

\* mutant of ModelRejected: only a missing model id is rejected
ModelRejected_MissingOnly == requestedModelId = <<>>

\* apiV1.js 417
ModelRejected ==
    requestedModelId = <<>> \/ requestedModelId \notin enabledModels

\* apiV1.js 429
isNonThinking == endsWith(requestedModelId, ":non-thinking")

\* mutant of actualModelId: the suffix stays
actualModelId_Unstripped == requestedModelId

\* apiV1.js 431
actualModelId ==
    IF isNonThinking THEN replace(requestedModelId, ":non-thinking")
    ELSE requestedModelId

\* apiV1.js 434
thinkingBudget == IF isNonThinking THEN "0" ELSE "undefined"

\* apiV1.js 386: stream = openAIRequestBody?.stream ?? false
stream == reqStream = "true"

\* mutant of useKeepAlive: the safety setting of the key is not looked at
useKeepAlive_IgnoreSafety == keepAliveEnabled /\ stream

\* apiV1.js 447
useKeepAlive == keepAliveEnabled /\ stream /\ ~isSafetyEnabled

\* mutant of useVertex: the prefix of the id is not looked at
useVertex_AnyId == vertexEnabled

\* apiV1.js 619
useVertex == startsWith(requestedModelId, "[v]") /\ vertexEnabled

SseHeaders ==
    {"Content-Type: text/event-stream", "Cache-Control: no-cache",
     "Connection: keep-alive"}

Body(kind, type, model, by) ==
    [kind |-> kind, type |-> type, model |-> model, by |-> by]

\* a request arrives: any configuration, any request
RequestInit ==
    /\ ResInit
    /\ KeepAliveIdle
    /\ StreamIdle
    /\ upstreamOpen = FALSE
    /\ modelsConfig \in SUBSET ConfigKeys
    /\ webSearchEnabled \in BOOLEAN
    /\ vertexEnabled \in BOOLEAN
    /\ keepAliveEnabled \in BOOLEAN
    /\ isSafetyEnabled \in BOOLEAN
    /\ reqStream \in {"true", "false", "absent"}
    /\ requestedModelId \in RequestIds
    /\ bodyModel = requestedModelId
    /\ rpc = "start"
    /\ keepAliveCallback = FALSE
    /\ resStatus = 0 /\ resHeaders = {} /\ resBody = <<>>
    /\ proxyCall = <<>>
    /\ modelsData = <<>>
    /\ result = <<>>
    /\ TranslatorIdle
    /\ SchemaIdle
    /\ ResponseIdle
    /\ NamesIdle
    /\ RestIdle

\* GET /v1/models, apiV1.js 20-88
GetModels ==
    /\ modelsData = <<>>
    /\ modelsData' = <<ModelsData(modelsConfig, webSearchEnabled, vertexEnabled)>>
    /\ UNCHANGED <<resVars, kaVars, upstreamOpen, stVars, modelsConfig,
                   webSearchEnabled, vertexEnabled, keepAliveEnabled,
                   isSafetyEnabled, reqStream, requestedModelId, bodyModel, rpc,
                   keepAliveCallback, resStatus, resHeaders, resBody, proxyCall,
                   result>>
    /\ UNCHANGED requestFrame

\* POST /v1/chat/completions, the model validation fails: apiV1.js 417-425
RejectModel ==
    /\ rpc = "start"
    /\ ModelRejected
    /\ rpc' = "rejected"
    /\ resStatus' = 400
    /\ resBody' = <<Body("error", "invalid_request_error", requestedModelId,
                         "handler")>>
    /\ UNCHANGED <<resVars, kaVars, upstreamOpen, stVars, modelsConfig,
                   webSearchEnabled, vertexEnabled, keepAliveEnabled,
                   isSafetyEnabled, reqStream, requestedModelId, bodyModel,
                   keepAliveCallback, resHeaders, proxyCall, modelsData,
                   result>>
    /\ UNCHANGED requestFrame

\* POST /v1/chat/completions, the model validation passes: apiV1.js 428-637,
\* up to the await of the backend proxy
Dispatch ==
    /\ rpc = "start"
    /\ ~ModelRejected
    /\ rpc' = "awaitProxy"
    \* 437-439
    /\ bodyModel' = IF isNonThinking THEN actualModelId ELSE bodyModel
    \* 452-616
    /\ keepAliveCallback' = useKeepAlive
    /\ hpc' = IF useKeepAlive THEN "awaitProxy" ELSE hpc
    /\ resHeaders' = IF useKeepAlive
                     THEN SseHeaders \cup {"X-Proxied-By"} ELSE resHeaders
    \* 619-637
    /\ proxyCall' =
          <<[service |-> IF useVertex THEN "vertex" ELSE "gemini",
             model |-> bodyModel',
             stream |-> stream,
             thinkingBudget |-> IF useVertex THEN "undefined" ELSE thinkingBudget,
             keepAliveCallback |-> keepAliveCallback']>>
    /\ upstreamOpen' = TRUE
    /\ UNCHANGED <<resVars, keepAliveTimerId, armedTimers, nextTimerId,
                   isConnectionClosed, ksBuf, ksEnded, ksEndEmitted, esBuf,
                   esEnded, esEndEmitted, pushLog, finalData, obs, stVars,
                   modelsConfig, webSearchEnabled, vertexEnabled,
                   keepAliveEnabled, isSafetyEnabled, reqStream,
                   requestedModelId, resStatus, resBody, modelsData, result>>
    /\ UNCHANGED requestFrame

\* the values of result.status and of geminiResponse.status: 0 stands for a
\* status that is missing
UpstreamStatuses == {0, 429, 503}

\* what the awaited proxy call resolves with
ProxyResult(error, status) == [error |-> error, status |-> status]

\* mutant of StatusOr: the upstream status is ignored
StatusOr_Fallback(status, fallback) == fallback

\* `status || fallback`, apiV1.js 674, 1122, 1129
StatusOr(status, fallback) == IF status = 0 THEN fallback ELSE status

\* the proxy resolves with result.error, no keep-alive: apiV1.js 639-675
ResultError ==
    /\ rpc = "awaitProxy" /\ ~keepAliveCallback
    /\ rpc' = "errorJson"
    /\ \E status \in UpstreamStatuses: result' = <<ProxyResult(TRUE, status)>>
    /\ resStatus' = StatusOr(result'[1].status, 500)
    /\ resHeaders' = resHeaders \cup {"Content-Type: application/json"}
    /\ resBody' = <<Body("error", "upstream_error", <<>>, "handler")>>
    /\ upstreamOpen' = FALSE
    /\ UNCHANGED <<resVars, kaVars, stVars, modelsConfig, webSearchEnabled,
                   vertexEnabled, keepAliveEnabled, isSafetyEnabled, reqStream,
                   requestedModelId, bodyModel, keepAliveCallback, proxyCall,
                   modelsData>>
    /\ UNCHANGED requestFrame

\* mutant of CommonHeaders: the key id is not sent back
CommonHeaders_ProxiedByOnly == {"X-Proxied-By"}

\* the common headers of the non-KEEPALIVE mode, apiV1.js 695-696
CommonHeaders == {"X-Proxied-By", "X-Selected-Key-ID"}

\* a successful result of a stream request: apiV1.js 695-702; the response
\* goes on as the standard streaming path
ResultStream ==
    /\ rpc = "awaitProxy" /\ ~keepAliveCallback
    /\ stream
    /\ rpc' = "streaming"
    /\ result' = <<ProxyResult(FALSE, 200)>>
    /\ resHeaders' = resHeaders \cup SseHeaders \cup CommonHeaders
    /\ UNCHANGED <<resVars, kaVars, upstreamOpen, stVars, modelsConfig,
                   webSearchEnabled, vertexEnabled, keepAliveEnabled,
                   isSafetyEnabled, reqStream, requestedModelId, bodyModel,
                   keepAliveCallback, resStatus, resBody, proxyCall, modelsData>>
    /\ UNCHANGED requestFrame

\* a successful result of a non-stream request: apiV1.js 1060-1076.  The
\* alternate backend's JSON is passed on as its service wrote it (it was
\* handed openAIRequestBody); the primary backend's is translated with
\* requestedModelId.
ResultNonStream ==
    /\ rpc = "awaitProxy" /\ ~keepAliveCallback
    /\ ~stream
    /\ rpc' = "done"
    /\ result' = <<ProxyResult(FALSE, 200)>>
    /\ resHeaders' = resHeaders \cup CommonHeaders
                        \cup {"Content-Type: application/json"}
    /\ resStatus' = 200
    /\ resBody' = IF proxyCall[1].service = "vertex"
                  THEN <<Body("completion", "chat.completion", bodyModel,
                              "vertexService")>>
                  ELSE <<Body("completion", "chat.completion", requestedModelId,
                              "handler")>>
    /\ upstreamOpen' = FALSE
    /\ UNCHANGED <<resVars, kaVars, stVars, modelsConfig, webSearchEnabled,
                   vertexEnabled, keepAliveEnabled, isSafetyEnabled, reqStream,
                   requestedModelId, bodyModel, keepAliveCallback, proxyCall,
                   modelsData>>
    /\ UNCHANGED requestFrame

\* The request up to the upstream call and, with keep-alive engaged, the
\* heartbeat pump the proxy drives through keepAliveCallback.  How a
\* keep-alive response completes is SpecKeepAlive, how a streamed body is
\* translated is SpecStream.
RequestNext ==
    \/ GetModels
    \/ RejectModel
    \/ Dispatch
    \/ ResultError
    \/ ResultStream
    \/ ResultNonStream
    \/ StartHeartbeat
    \/ TimerTick
    \/ StopHeartbeat
    \/ ProxyReturnsKeepAlive
    \/ KeepAlivePipeData
    \/ KeepAliveClientClose

SpecRequest == RequestInit /\ [][RequestNext]_vars

(***************************************************************************)
(* transformOpenAiToGemini, apiV1.js 1673-1817: the messages               *)
(*                                                                         *)
(* A message is [role, content, tool_calls, tool_call_id, name].  content  *)
(* is "string" (a non-empty string), "unknownParts" (an array holding only *)
(* parts of an unknown type) or "none" (null or undefined); tool_calls is  *)
(* a sequence of [id, type, name], name being function.name; Null stands   *)
(* for an absent field.                                                    *)
(***************************************************************************)
MaxMsgs == 3       \* messages in one request

Msg(role, content, calls, id, name) ==
    [role |-> role, content |-> content, tool_calls |-> calls,
     tool_call_id |-> id, name |-> name]

ToolCall(id, type, name) == [id |-> id, type |-> type, name |-> name]

MessageShapes ==
    { Msg("user", "string", <<>>, Null, Null),
      Msg("user", "unknownParts", <<>>, Null, Null),
      Msg("assistant", "string", <<>>, Null, Null),
      Msg("assistant", "none", <<ToolCall("x1", "function", "f")>>, Null, Null),
      Msg("assistant", "none", <<ToolCall("x1", "function", "g")>>, Null, Null),
      Msg("assistant", "none", <<ToolCall("x1", Null, "f")>>, Null, Null),
      Msg("assistant", "string", <<ToolCall("x2", "function", "f")>>, Null, Null),
      Msg("tool", "string", <<>>, "x1", Null),
      Msg("tool", "string", <<>>, "x2", Null),
      Msg("tool", "string", <<>>, Null, "h"),
      Msg("system", "string", <<>>, Null, Null),
      Msg("developer", "string", <<>>, Null, Null) }

Part(kind, name) == [kind |-> kind, name |-> name]

\* 1735-1742: the loop over msg.tool_calls, its effect on the Map
RECURSIVE RecordCalls(_, _)
RecordCalls(map, calls) ==
    IF calls = <<>> THEN map
    ELSE LET tc == Head(calls)
             m == IF tc.type = "function" /\ tc.name # Null /\ tc.id # Null
                  THEN [map EXCEPT ![tc.id] = tc.name] ELSE map
         IN  RecordCalls(m, Tail(calls))

\* 1735-1742: the loop over msg.tool_calls, the parts it pushes
RECURSIVE CallParts(_)
CallParts(calls) ==
    IF calls = <<>> THEN <<>>
    ELSE LET tc == Head(calls)
         IN  (IF tc.type = "function" /\ tc.name # Null
              THEN <<Part("functionCall", tc.name)>> ELSE <<>>)
             \o CallParts(Tail(calls))

\* 1786-1811: the parts of a plain content
ContentParts(content) ==
    IF content = "string" THEN <<Part("text", Null)>> ELSE <<>>

\* mutant of ResolveName: the Map is not consulted
ResolveName_FieldOnly(msg, map) == msg.name

\* 1752: msg.name || (msg.tool_call_id ? toolCallIdToName.get(id) : undefined)
ResolveName(msg, map) ==
    IF msg.name # Null THEN msg.name
    ELSE IF msg.tool_call_id # Null THEN map[msg.tool_call_id]
    ELSE Null

\* mutant of ToolParts: a tool message without a name yields no part
ToolParts_DropUnresolved(msg, map) ==
    LET name == ResolveName(msg, map)
    IN  IF name # Null THEN <<Part("functionResponse", name)>> ELSE <<>>

\* 1750-1772: the parts of a tool message
ToolParts(msg, map) ==
    LET name == ResolveName(msg, map)
    IN  IF name # Null THEN <<Part("functionResponse", name)>>
        ELSE <<Part("text", Null)>>

\* mutant of Emit: the message is appended whatever its parts
Emit_Always(role, parts) ==
    Append(contents, [role |-> role, parts |-> parts, from |-> msgIdx])

\* 1813-1816: contents.push({role, parts}) if it has a role and parts; `from`
\* remembers the message the element was made from
Emit(role, parts) ==
    IF parts # <<>>
    THEN Append(contents, [role |-> role, parts |-> parts, from |-> msgIdx])
    ELSE contents

msg == messages[msgIdx]

HasToolCalls(m) == m.role = "assistant" /\ m.tool_calls # <<>>

\* a message of role user: 1692-1694, 1786-1816
MapUser ==
    /\ msgIdx <= Len(messages)
    /\ msg.role = "user"
    /\ contents' = Emit("user", ContentParts(msg.content))
    /\ msgIdx' = msgIdx + 1
    /\ UNCHANGED <<messages, toolCallIdToName, systemInstruction,
                   requestedModelId, isSafetyEnabled, translatorFrame>>

\* a message of role assistant: 1695-1697, 1733-1749, 1786-1816
MapAssistant ==
    /\ msgIdx <= Len(messages)
    /\ msg.role = "assistant"
    /\ IF HasToolCalls(msg)
       THEN /\ toolCallIdToName' = RecordCalls(toolCallIdToName, msg.tool_calls)
            /\ contents' = Emit("model", CallParts(msg.tool_calls)
                                            \o ContentParts(msg.content))
       ELSE /\ toolCallIdToName' = toolCallIdToName
            /\ contents' = Emit("model", ContentParts(msg.content))
    /\ msgIdx' = msgIdx + 1
    /\ UNCHANGED <<messages, systemInstruction, requestedModelId,
                   isSafetyEnabled, translatorFrame>>

\* a message of role tool: 1698-1701, 1750-1772, 1813-1816
MapTool ==
    /\ msgIdx <= Len(messages)
    /\ msg.role = "tool"
    /\ contents' = Emit("user", ToolParts(msg, toolCallIdToName))
    /\ msgIdx' = msgIdx + 1
    /\ UNCHANGED <<messages, toolCallIdToName, systemInstruction,
                   requestedModelId, isSafetyEnabled, translatorFrame>>

\* a message of role system: 1702-1725
MapSystem ==
    /\ msgIdx <= Len(messages)
    /\ msg.role = "system"
    /\ IF ~isSafetyEnabled \/ startsWith(requestedModelId, "gemma")
       THEN /\ contents' = Emit("user", ContentParts(msg.content))
            /\ UNCHANGED systemInstruction
       ELSE /\ systemInstruction' = IF msg.content = "string" THEN <<msgIdx>>
                                    ELSE systemInstruction
            /\ UNCHANGED contents
    /\ msgIdx' = msgIdx + 1
    /\ UNCHANGED <<messages, toolCallIdToName, requestedModelId,
                   isSafetyEnabled, translatorFrame>>

\* a message of any other role is skipped: 1726-1728
SkipUnknownRole ==
    /\ msgIdx <= Len(messages)
    /\ msg.role \notin {"user", "assistant", "tool", "system"}
    /\ msgIdx' = msgIdx + 1
    /\ UNCHANGED <<messages, toolCallIdToName, contents, systemInstruction,
                   requestedModelId, isSafetyEnabled, translatorFrame>>

MessageLists == UNION {[1..n -> MessageShapes] : n \in 0..MaxMsgs}

TranslateInit ==
    /\ ResInit
    /\ KeepAliveIdle
    /\ StreamIdle
    /\ upstreamOpen = FALSE
    /\ modelsConfig = {} /\ webSearchEnabled = FALSE /\ vertexEnabled = FALSE
    /\ keepAliveEnabled = FALSE
    /\ isSafetyEnabled \in BOOLEAN
    /\ reqStream = "false"
    /\ requestedModelId \in {<<"gemini-2.0-flash">>, <<"gemma", "-3-27b-it">>}
    /\ bodyModel = requestedModelId
    /\ rpc = "idle" /\ keepAliveCallback = FALSE /\ resStatus = 0
    /\ resHeaders = {} /\ resBody = <<>> /\ proxyCall = <<>>
    /\ modelsData = <<>> /\ result = <<>>
    /\ messages \in MessageLists
    /\ msgIdx = 1
    /\ toolCallIdToName = [x \in ToolCallIds |-> Null]
    /\ contents = <<>>
    /\ systemInstruction = <<>>
    /\ SchemaIdle
    /\ ResponseIdle
    /\ NamesIdle
    /\ RestIdle

TranslateNext ==
    \/ MapUser
    \/ MapAssistant
    \/ MapTool
    \/ MapSystem
    \/ SkipUnknownRole

SpecTranslate == TranslateInit /\ [][TranslateNext]_vars

(***************************************************************************)
(* Tool-parameter schemas.  A schema node is a record that carries exactly *)
(* the keywords present in the JSON object, so {} is the record with no    *)
(* fields.  "type" holds <<t>> for the string t and <<"[]", t1, .., tn>>   *)
(* for the array [t1, .., tn]; "const" and the elements of "enum" are the  *)
(* JSON values written as text, "null" being JSON null; "minimum" is "n1"  *)
(* for the number 1, "s1" for the string "1" and "sx" for a string that is *)
(* no number; "properties" is a record from property names to nodes;       *)
(* anyOf, oneOf, allOf and prefixItems are sequences of nodes.             *)
(***************************************************************************)
EmptySchema == <<>>
Has(s, k) == k \in DOMAIN s
Del(s, K) == [k \in DOMAIN s \ K |-> s[k]]
Put(s, k, v) == [x \in DOMAIN s \cup {k} |-> IF x = k THEN v ELSE s[x]]
TypeString(t) == <<t>>
TypeArray(ts) == <<"[]">> \o ts
IsTypeArray(tv) == Len(tv) > 0 /\ tv[1] = "[]"
ObjectSchema == [type |-> TypeString("object")]

\* keys whose value is one JSON object, and keys whose value is an array of
\* JSON objects; every other key of the encoding holds a scalar or an array
\* of scalars
ObjectValued == {"properties", "x", "items", "additionalProperties"}
ArrayOfObjects == {"anyOf", "oneOf", "allOf", "prefixItems"}
Combinators == <<"anyOf", "oneOf", "allOf">>

\* transformJsonSchemaFields: isNullish and isEmptySchema of a branch
isNullish(node) ==
    \/ (Has(node, "enum") /\ node["enum"] = <<"null">>)
    \/ (Has(node, "type") /\ node["type"] = TypeString("null"))
isEmptySchema(node) == DOMAIN node = {}

\* the shape rule that gives a node without a type the type its keywords
\* imply (apiV1.js 202-210 and 240-245)
InferTypeT(n) ==
    IF Has(n, "type") THEN n
    ELSE IF Has(n, "properties") \/ Has(n, "required")
         THEN Put(n, "type", TypeString("object"))
    ELSE IF Has(n, "items") \/ Has(n, "prefixItems")
         THEN Put(n, "type", TypeString("array"))
    ELSE n

\* branches.find(b => b.type === 'object') || branches[0]
preferred(branches) ==
    IF \E i \in 1..Len(branches) :
            Has(branches[i], "type") /\ branches[i]["type"] = TypeString("object")
    THEN branches[CHOOSE i \in 1..Len(branches) :
            /\ Has(branches[i], "type")
            /\ branches[i]["type"] = TypeString("object")
            /\ \A j \in 1..(i - 1) :
                 ~(Has(branches[j], "type")
                   /\ branches[j]["type"] = TypeString("object"))]
    ELSE branches[1]

RECURSIVE transformJsonSchemaFields(_)
transformJsonSchemaFields(schemaObj) ==
    LET kept == DOMAIN schemaObj \ {"$schema", "$defs", "$ref",
                    "additionalProperties", "patternProperties", "definitions"}
        transformedObj == [key \in kept |->
            IF key \in ObjectValued
            THEN transformJsonSchemaFields(schemaObj[key])
            ELSE IF key \in ArrayOfObjects
            THEN [i \in 1..Len(schemaObj[key]) |->
                     transformJsonSchemaFields(schemaObj[key][i])]
            ELSE schemaObj[key]]
        \* 1) enum survives only under type 'string'
        noEnum == IF Has(transformedObj, "enum")
                     /\ ~(Has(transformedObj, "type")
                          /\ transformedObj["type"] = TypeString("string"))
                  THEN Del(transformedObj, {"enum"})
                  ELSE transformedObj
        \* 2) missing type inferred from the shape
        typed == InferTypeT(noEnum)
        \* 3) the first combinator present replaces the node by one branch
        present == {c \in 1..3 : Has(typed, Combinators[c])}
        combKey == Combinators[CHOOSE c \in present : \A d \in present : c <= d]
        live == SelectSeq(typed[combKey], LAMBDA sub : ~isNullish(sub))
        filled == [i \in 1..Len(live) |->
                     IF isEmptySchema(live[i]) THEN ObjectSchema ELSE live[i]]
        again == [i \in 1..Len(filled) |-> transformJsonSchemaFields(filled[i])]
        branches == IF Len(again) = 0 THEN <<ObjectSchema>> ELSE again
    IN  IF present = {} THEN typed
        ELSE InferTypeT(preferred(branches))

\* the route's root fix after the transformation (apiV1.js 357-365)
PreprocessParameters(p) ==
    LET q == transformJsonSchemaFields(p)
    IN  IF ~Has(q, "type") /\ (Has(q, "properties") \/ Has(q, "required"))
        THEN Put(q, "type", TypeString("object"))
        ELSE q

SUPPORTED_TYPES == {"string", "number", "integer", "boolean", "object", "array"}
BannedEverywhere == {"$schema", "definitions", "$defs", "$ref",
                     "patternProperties", "examples", "deprecated",
                     "readOnly", "writeOnly", "title"}

\* Number(n) of a constraint value; "" stands for undefined
toNumber(n) == IF n \in {"n1", "s1"} THEN "n1" ELSE ""

\* sanitizeToolParameters: isNullOnly of a sanitized branch
isNullOnly(node) ==
    \/ (Has(node, "enum") /\ node["enum"] = <<"null">>)
    \/ (Has(node, "type") /\ node["type"] = TypeString("null"))

\* the type handling of one node (apiV1.js 1578-1597)
TypeHandling(s) ==
    IF ~Has(s, "type") THEN s
    ELSE IF IsTypeArray(s["type"])
    THEN LET filtered == SelectSeq(Tail(s["type"]),
                                   LAMBDA ty : ty \in SUPPORTED_TYPES)
         IN  IF Len(filtered) = 0 THEN Del(s, {"type"})
             ELSE IF Len(filtered) = 1
                  THEN Put(s, "type", TypeString(filtered[1]))
             ELSE Put(Del(s, {"type"}), "anyOf",
                      [i \in 1..Len(filtered) |->
                          [type |-> TypeString(filtered[i])]])
    ELSE IF s["type"][1] \notin SUPPORTED_TYPES THEN Del(s, {"type"})
    ELSE s
\* missing type inferred from the shape (apiV1.js 1600-1610)
InferTypeS(s) ==
    IF Has(s, "type") THEN s
    ELSE IF Has(s, "properties") \/ Has(s, "required")
            \/ Has(s, "additionalProperties")
         THEN Put(s, "type", TypeString("object"))
    ELSE IF Has(s, "items") \/ Has(s, "prefixItems")
         THEN Put(s, "type", TypeString("array"))
    ELSE s

\* minimum coerced to a number or dropped (apiV1.js 1647-1654)
CoerceNumeric(s) ==
    IF ~Has(s, "minimum") THEN s
    ELSE IF toNumber(s["minimum"]) = "" THEN Del(s, {"minimum"})
    ELSE Put(s, "minimum", toNumber(s["minimum"]))

\* one pass of the combinator loop for one key (apiV1.js 1534-1574), on the
\* branches already sanitized (1539)
SanitizeCombinator(s, key, each) ==
    LET live == SelectSeq(each, LAMBDA sub : ~isNullOnly(sub))
        filled == [i \in 1..Len(live) |->
            IF isEmptySchema(live[i]) THEN ObjectSchema ELSE live[i]]
        branches == IF Len(filled) = 0 THEN <<ObjectSchema>> ELSE filled
        branchTypes == {branches[i]["type"] :
                           i \in {b \in 1..Len(branches) :
                                     Has(branches[b], "type")}}
        kept == Put(s, key, branches)
    IN  IF Has(kept, "type") THEN kept
        ELSE IF TypeString("object") \in branchTypes
             THEN Put(kept, "type", TypeString("object"))
        ELSE IF TypeString("array") \in branchTypes
             THEN Put(kept, "type", TypeString("array"))
        ELSE kept

\* the banned keys of the node itself (apiV1.js 1513-1518)
DropBanned(s) == Del(s, BannedEverywhere)

\* const becomes a one-value enum (apiV1.js 1522-1525)
ConstToEnum(s) ==
    IF Has(s, "const")
    THEN Put(Del(s, {"const"}), "enum", <<s["const"]>>)
    ELSE s

RECURSIVE sanitize(_)
\* 1534-1574 for one key: each branch sanitized first
SanitizeBranches(s, key) ==
    IF Has(s, key)
    THEN SanitizeCombinator(s, key,
             [i \in 1..Len(s[key]) |-> sanitize(s[key][i])])
    ELSE s

\* object specifics: every property (apiV1.js 1614-1618)
SanitizeProperties(s) ==
    IF Has(s, "properties")
    THEN Put(s, "properties",
             [prop \in DOMAIN s["properties"] |->
                 sanitize(s["properties"][prop])])
    ELSE s

\* an object-valued additionalProperties (1627) and items (1639)
SanitizeAt(s, key) ==
    IF Has(s, key) THEN Put(s, key, sanitize(s[key])) ELSE s

sanitize(node) ==
    CoerceNumeric(
      SanitizeAt(
        SanitizeAt(
          SanitizeProperties(
            InferTypeS(
              TypeHandling(
                SanitizeBranches(
                  SanitizeBranches(
                    SanitizeBranches(ConstToEnum(DropBanned(node)), "anyOf"),
                    "oneOf"),
                  "allOf")))),
          "additionalProperties"),
        "items"))

\* transformOpenAiToGemini on one tool's parameters (apiV1.js 1826-1842)
sanitizeToolParameters(schema) == sanitize(schema)
SanitizeParameters(parameters) ==
    LET s == sanitizeToolParameters(Del(parameters, {"$schema"}))
    IN  IF ~Has(s, "type")
           /\ (Has(s, "properties") \/ Has(s, "required")
               \/ Has(s, "additionalProperties"))
        THEN Put(s, "type", TypeString("object"))
        ELSE s

(***************************************************************************)
(* The schemas a client may send, up to a nesting depth, and the steps a   *)
(* tool's parameters go through: the route's pre-processing, then the      *)
(* request translator's sanitization; sanitizeToolParameters may then be   *)
(* applied to its own result.                                              *)
(***************************************************************************)
MaxSchemaDepth == 2

LeafSchemas ==
    { EmptySchema,
      [type |-> TypeString("string")],
      [type |-> TypeString("null")],
      [type |-> TypeArray(<<"object", "string">>)],
      [type |-> TypeString("string"), title |-> "t"],
      [const |-> "3"],
      [const |-> "null"],
      [enum |-> <<"null">>],
      [type |-> TypeString("integer"), minimum |-> "s1"] }

Nest(N) ==
    {[properties |-> [x |-> n]] : n \in N}
    \cup {[items |-> n] : n \in N}
    \cup {[prefixItems |-> <<n>>] : n \in N}
    \cup {[additionalProperties |-> n] : n \in N}
    \cup {[oneOf |-> <<n>>] : n \in N}
    \cup {[allOf |-> <<n>>] : n \in N}
    \cup {[type |-> TypeString("string"), oneOf |-> <<n>>] : n \in N}
    \cup {[anyOf |-> <<l, n>>] : l \in LeafSchemas, n \in N}

RECURSIVE SchemasOfDepth(_)
SchemasOfDepth(d) ==
    IF d = 0 THEN LeafSchemas
    ELSE LeafSchemas \cup Nest(SchemasOfDepth(d - 1))

\* the root may carry the $schema keyword
Schemas ==
    LET N == SchemasOfDepth(MaxSchemaDepth)
    IN  N \cup {Put(n, "$schema", "u") : n \in N}

PreprocessTool ==
    /\ schemaOps = <<>>
    /\ schemaPrev' = schemaCur
    /\ schemaCur' = PreprocessParameters(schemaCur)
    /\ schemaOps' = Append(schemaOps, "preprocess")
    /\ UNCHANGED <<schemaIn, schemaFrame>>

TransformTool ==
    /\ \A i \in 1..Len(schemaOps) : schemaOps[i] = "preprocess"
    /\ schemaPrev' = schemaCur
    /\ schemaCur' = SanitizeParameters(schemaCur)
    /\ schemaOps' = Append(schemaOps, "transform")
    /\ UNCHANGED <<schemaIn, schemaFrame>>

Resanitize ==
    /\ schemaOps # <<>>
    /\ schemaOps[Len(schemaOps)] = "transform"
    /\ schemaPrev' = schemaCur
    /\ schemaCur' = sanitizeToolParameters(schemaCur)
    /\ schemaOps' = Append(schemaOps, "sanitize")
    /\ UNCHANGED <<schemaIn, schemaFrame>>

SchemaInit ==
    /\ ResInit
    /\ KeepAliveIdle
    /\ StreamIdle
    /\ RequestIdle
    /\ TranslatorIdle
    /\ upstreamOpen = FALSE
    /\ ResponseIdle
    /\ NamesIdle
    /\ RestIdle
    /\ schemaIn \in Schemas
    /\ schemaCur = schemaIn
    /\ schemaPrev = schemaIn
    /\ schemaOps = <<>>

SchemaNext == PreprocessTool \/ TransformTool \/ Resanitize

SpecSchema == SchemaInit /\ [][SchemaNext]_vars

(***************************************************************************)
(* The two response translators as whole functions, on everything the      *)
(* caller may hand them.  The shape of the argument says where, if         *)
(* anywhere, the translation throws:                                       *)
(*   "null"             the argument is null                               *)
(*   "scalar"           a string or a number                               *)
(*   "noCandidates"     an object without `candidates`                     *)
(*   "emptyCandidates"  candidates: []                                     *)
(*   "nullCandidate"    candidates: [null]                                 *)
(*   "nullPart"         content.parts: [null]                              *)
(*   "nullFunctionCall" content.parts: [{functionCall: null}]              *)
(*   "ok"               a candidate with well-formed parts                 *)
(***************************************************************************)
MalformedShapes == {"nullCandidate", "nullPart", "nullFunctionCall"}

GeminiResponses ==
    [shape : {"ok"}, block : {FALSE}, text : {Null, "ok"}, tool : BOOLEAN,
     fr : FinishReasons, usage : BOOLEAN]
    \cup [shape : {"noCandidates", "emptyCandidates"}, block : BOOLEAN,
          text : {Null}, tool : {FALSE}, fr : {Null}, usage : BOOLEAN]
    \cup [shape : {"null", "scalar"} \cup MalformedShapes, block : {FALSE},
          text : {Null}, tool : {FALSE}, fr : {"STOP"}, usage : {FALSE}]

\* usageMetadata's three counters, `|| 0` when absent (apiV1.js 2128-2132)
Usage(g) == IF g.usage THEN <<3, 2, 5>> ELSE <<0, 0, 0>>

\* the statement of the try block that throws a TypeError: the read of
\* .candidates of null (2028), of .content of a null candidate (2064), of
\* .text of a null part (2065), of .name of a null functionCall (2074)
ThrowsInResponse(g) == g.shape \in {"null"} \cup MalformedShapes

\* mutant of ResponseToOpenAI: no catch block
ResponseToOpenAI_NoCatch(g) ==
    IF ThrowsInResponse(g)
    THEN [raised |-> TRUE, object |-> Null, id |-> Null, content |-> Null,
          finish_reason |-> Null, tool_calls |-> FALSE, usage |-> <<0, 0, 0>>]
    ELSE LET o == transformGeminiResponseToOpenAI(
                      [cand |-> g.shape = "ok", block |-> g.block,
                       text |-> g.text, tool |-> g.tool, fr |-> g.fr])
         IN  [raised |-> FALSE, object |-> "chat.completion",
              id |-> IF g.shape = "ok" THEN "chatcmpl" ELSE "chatcmpl-error",
              content |-> o.content, finish_reason |-> o.finish_reason,
              tool_calls |-> o.tool_calls,
              usage |-> IF g.shape = "ok" THEN Usage(g) ELSE <<0, 0, 0>>]

\* transformGeminiResponseToOpenAI with its try/catch, apiV1.js 2025-2173:
\* what the caller gets
ResponseToOpenAI(g) ==
    IF ThrowsInResponse(g)
    THEN [raised |-> FALSE, object |-> "chat.completion",
          id |-> "chatcmpl-error",
          content |-> "Error processing Gemini response",
          finish_reason |-> "error", tool_calls |-> FALSE,
          usage |-> <<0, 0, 0>>]
    ELSE LET o == transformGeminiResponseToOpenAI(
                      [cand |-> g.shape = "ok", block |-> g.block,
                       text |-> g.text, tool |-> g.tool, fr |-> g.fr])
         IN  [raised |-> FALSE, object |-> "chat.completion",
              id |-> IF g.shape = "ok" THEN "chatcmpl" ELSE "chatcmpl-error",
              content |-> o.content, finish_reason |-> o.finish_reason,
              tool_calls |-> o.tool_calls,
              usage |-> IF g.shape = "ok" THEN Usage(g) ELSE <<0, 0, 0>>]

\* transformGeminiStreamChunk with its guard and its try/catch, apiV1.js
\* 1904-2016: the frames the caller gets (none for null)
ChunkToOpenAI(g) ==
    IF g.shape \in {"null", "scalar", "noCandidates", "emptyCandidates"}
    THEN <<>>
    ELSE IF g.shape \in MalformedShapes
    THEN <<Frame("chunk", "chatcmpl-error", Null,
                 "[Error transforming chunk]", "error", "tr")>>
    ELSE transformGeminiStreamChunk(
             [text |-> g.text, tool |-> g.tool, role |-> "model", fr |-> g.fr])

TranslateResponse ==
    /\ "response" \notin translated
    /\ completion' = <<ResponseToOpenAI(geminiResponse)>>
    /\ translated' = translated \cup {"response"}
    /\ UNCHANGED <<geminiResponse, chunkFrames, responseFrame>>

TranslateChunk ==
    /\ "chunk" \notin translated
    /\ chunkFrames' = ChunkToOpenAI(geminiResponse)
    /\ translated' = translated \cup {"chunk"}
    /\ UNCHANGED <<geminiResponse, completion, responseFrame>>

ResponseInit ==
    /\ ResInit
    /\ KeepAliveIdle
    /\ StreamIdle
    /\ RequestIdle
    /\ TranslatorIdle
    /\ SchemaIdle
    /\ NamesIdle
    /\ RestIdle
    /\ upstreamOpen = FALSE
    /\ geminiResponse \in GeminiResponses
    /\ completion = <<>>
    /\ chunkFrames = <<>>
    /\ translated = {}

ResponseNext == TranslateResponse \/ TranslateChunk

SpecResponse == ResponseInit /\ [][ResponseNext]_vars

(***************************************************************************)
(* Tool function names, apiV1.js 261-369.  A name is the sequence of its   *)
(* characters; <<>> is the empty string and also a name that is no string. *)
(* One tool is processed: its function_declarations in order, then its     *)
(* `function`, all sharing one usedNames.                                  *)
(***************************************************************************)
MaxNameLength == 64
MaxDecls == 2

Letters == {"a", "b", "f", "n"}
Digits == {"0", "1", "2", "3", "4", "5", "6", "7", "8", "9"}
Whitespace == {" "}
NameChars == Letters \cup Digits \cup {"_", ".", ":", "-"}

DigitChar(d) == <<"0", "1", "2", "3", "4", "5", "6", "7", "8", "9">>[d + 1]

\* `${counter}`
RECURSIVE Decimal(_)
Decimal(k) ==
    IF k < 10 THEN <<DigitChar(k)>>
    ELSE Decimal(k \div 10) \o <<DigitChar(k % 10)>>

\* String.prototype.trim
RECURSIVE trim(_)
trim(n) ==
    IF n = <<>> THEN n
    ELSE IF n[1] \in Whitespace THEN trim(Tail(n))
    ELSE IF n[Len(n)] \in Whitespace THEN trim(SubSeq(n, 1, Len(n) - 1))
    ELSE n

\* n.replace(/\s+/g, '_'): every run of whitespace becomes one underscore
ReplaceWhitespaceRuns(n) ==
    LET marked == [i \in 1..Len(n) |->
                     IF n[i] \notin Whitespace THEN n[i]
                     ELSE IF i > 1 /\ n[i - 1] \in Whitespace THEN ""
                     ELSE "_"]
    IN  SelectSeq(marked, LAMBDA c : c # "")

\* n.replace(/[^A-Za-z0-9_.:-]/g, '_')
ReplaceIllegal(n) ==
    [i \in 1..Len(n) |-> IF n[i] \in NameChars THEN n[i] ELSE "_"]

\* n.slice(0, k)
slice(n, k) == SubSeq(n, 1, IF Len(n) < k THEN Len(n) ELSE k)

\* sanitizeFunctionName, apiV1.js 261-290
sanitizeFunctionName(name, fallbackBase) ==
    LET trimmed == trim(name)
        n1 == IF trimmed = <<>> THEN fallbackBase ELSE trimmed
        n2 == ReplaceIllegal(ReplaceWhitespaceRuns(n1))
        n3 == IF n2[1] \in Letters \cup {"_"} THEN n2 ELSE <<"_">> \o n2
    IN  slice(n3, MaxNameLength)

\* `fn_${toolIdx}_${i}` for function_declarations[i] and `fn_${toolIdx}` for
\* tool.function, of the tool at index 0
fallbackBase(kind, i) ==
    IF kind = "function" THEN <<"f", "n", "_", "0">>
    ELSE <<"f", "n", "_", "0", "_">> \o Decimal(i)

\* mutant of DedupCandidate: the suffix is appended to the whole name
DedupCandidate_NoTruncate(proposed, k) == proposed \o <<"_">> \o Decimal(k)

\* one pass of the while body, apiV1.js 309-311 and 344-346
DedupCandidate(proposed, k) ==
    LET suffix == <<"_">> \o Decimal(k)
        room == MaxNameLength - Len(suffix)
        base == slice(proposed, IF room < 1 THEN 1 ELSE room)
    IN  base \o suffix

\* the declaration being processed and its sanitized name
decl == fnNames[nameIdx]
proposed ==
    sanitizeFunctionName(decl.name,
        fallbackBase(decl.kind, nameIdx - 1))

\* 302-307 and 339-342: the name is sanitized and the loop is reached
ProposeName ==
    /\ namePc = "next"
    /\ nameIdx <= Len(fnNames)
    /\ unique' = proposed
    /\ counter' = 2
    /\ namePc' = "loop"
    /\ UNCHANGED <<fnNames, nameIdx, usedNames, outNames, namesFrame>>

\* 308-313 and 343-348: one iteration of the while loop
DedupStep ==
    /\ namePc = "loop"
    /\ unique \in usedNames
    /\ unique' = DedupCandidate(proposed, counter)
    /\ counter' = counter + 1
    /\ UNCHANGED <<fnNames, nameIdx, usedNames, outNames, namePc, namesFrame>>

\* 319-320 and 354-355: the loop is left and the name written back
AcceptName ==
    /\ namePc = "loop"
    /\ unique \notin usedNames
    /\ outNames' = Append(outNames, unique)
    /\ usedNames' = usedNames \cup {unique}
    /\ nameIdx' = nameIdx + 1
    /\ namePc' = "next"
    /\ UNCHANGED <<fnNames, unique, counter, namesFrame>>

\* n copies of the letter a
Run(n) == [i \in 1..n |-> "a"]

NameInputs ==
    { <<>>,
      <<"a">>,
      <<" ", "a">>,
      <<"a", " ", " ", "$", "b">>,
      <<"1">>,
      <<"a", "_", "2">>,
      <<"f", "n", "_", "0", "_", "1">>,
      Run(MaxNameLength),
      Run(MaxNameLength + 1),
      Run(MaxNameLength - 2) \o <<"_", "2">> }

DeclLists == UNION {[1..n -> NameInputs] : n \in 0..MaxDecls}

\* a tool: function_declarations, then possibly `function`
Tools ==
    LET asDecls(ns) == [i \in 1..Len(ns) |-> [kind |-> "decl", name |-> ns[i]]]
    IN  {asDecls(ns) : ns \in DeclLists}
        \cup {asDecls(ns) \o <<[kind |-> "function", name |-> f]>> :
                 ns \in DeclLists, f \in NameInputs}

NamesInit ==
    /\ ResInit
    /\ KeepAliveIdle
    /\ StreamIdle
    /\ RequestIdle
    /\ TranslatorIdle
    /\ SchemaIdle
    /\ ResponseIdle
    /\ RestIdle
    /\ upstreamOpen = FALSE
    /\ fnNames \in Tools
    /\ nameIdx = 1
    /\ usedNames = {}
    /\ outNames = <<>>
    /\ unique = <<>>
    /\ counter = 2
    /\ namePc = "next"

NamesNext == ProposeName \/ DedupStep \/ AcceptName

SpecNames == NamesInit /\ [][NamesNext]_vars

(***************************************************************************)
(* Properties                                                              *)
(***************************************************************************)

CountType(fs, type) == Cardinality({i \in 1..Len(fs): fs[i].type = type})

\* `data: [DONE]` occurs exactly once in fs, as its last frame
DoneOnceLast(fs) ==
    /\ Len(fs) > 0
    /\ fs[Len(fs)].type = "done"
    /\ CountType(fs, "done") = 1

IsDataFrame(f) == f.type = "chunk" \/ f.type = "raw"

StreamOver == phase \in {"ended", "bodyError", "transformError", "unreadable"}

C2_DoneExactlyOnce_AsClaimed ==
    /\ CountType(resFrames, "done") <= 1
    /\ resEnded => CountType(resFrames, "done") = 1

\* C3: in keep-alive mode no heartbeat frame is accepted by a stream piped to
\* the response after a `data: [DONE]` frame has been pushed.
C3_NoHeartbeatAfterDone ==
    \A i, j \in 1..Len(pushLog):
        (i < j /\ pushLog[i].type = "done") => pushLog[j].id # "keepalive"

\* C3 witness: the heartbeat timer fired after [DONE] had been pushed and
\* before the stream's 'end' event
C3_Witness ==
    /\ "tickAfterDone" \in obs
    /\ ~ksEndEmitted
    /\ Beats > 0

\* C4 as claimed: once the client has disconnected, the heartbeat timer is
\* cleared and the upstream body is no longer held open.
C4_DisconnectReleasesUpstream_AsClaimed ==
    resDestroyed => (keepAliveTimerId = 0 /\ ~upstreamOpen)

KeepAlivePushes == Len(SelectSeq(pushLog, LAMBDA f: f.via = "ka"))

\* C5: in keep-alive mode, a step taken once the client connection has closed
\* or errored pushes nothing to keepAliveSseStream (no heartbeat, no final
\* chunk, no error frame), whichever callback or timer tick it is.
C5_NoPushAfterClose ==
    [][ConnectionGone => KeepAlivePushes' = KeepAlivePushes]_vars

\* C5 witness: a timer tick, sendFinalResponse and sendError all ran after
\* the connection had closed
C5_Witness ==
    /\ resDestroyed
    /\ {"tickAfterClose", "finalAfterClose", "errorAfterClose"} \subseteq obs

\* end offset (in characters of the body) of the k-th object
RECURSIVE ObjEnd(_)
ObjEnd(k) ==
    IF k = 0 THEN 0
    ELSE ObjEnd(k - 1) + Len(TextOf(objs[k]))
         + (IF framing = "array" THEN 1 ELSE 0)   \* the "[" or "," before it

\* number of objects of the body that lie wholly in the consumed prefix
Completed == Cardinality({k \in 1..Len(objs): ObjEnd(k) <= consumed})

\* C6: whatever the chunk boundaries, the strings the scan loop has cut out
\* are exactly the top-level objects that lie wholly within the characters
\* consumed so far, each once and in input order, on both scanners.
C6_ChunkerExactlyOnceAnySplit ==
    extracted = [i \in 1..Completed |-> TextOf(objs[i])]

\* C6 witness: a whole body of two different objects was consumed, with a
\* chunk boundary between a backslash and the escaped character
C6_Witness ==
    /\ splitEsc /\ phase = "ended" /\ pending = <<>>
    /\ backend = "vertex"
    /\ extracted = <<EscText, CandText>>

RECURSIVE IsSubseq(_, _)
IsSubseq(a, b) ==
    IF a = <<>> THEN TRUE
    ELSE IF b = <<>> THEN FALSE
    ELSE IF Head(a) = Head(b) THEN IsSubseq(Tail(a), Tail(b))
    ELSE IsSubseq(a, Tail(b))

\* the frames of the whole body, object by object in upstream order
RECURSIVE ExpectedFrames(_, _)
ExpectedFrames(be, ks) ==
    IF ks = <<>> THEN <<>>
    ELSE (IF be = "vertex" THEN VertexFrames(TextOf(Head(ks)))
          ELSE GeminiFrames(TextOf(Head(ks))))
         \o ExpectedFrames(be, Tail(ks))

\* C7: the translated frames on the client stream appear in the order of the
\* upstream objects they come from: they form a subsequence of the frames of
\* the objects taken in upstream order.
C7_FramesInUpstreamOrder ==
    IsSubseq(SelectSeq(resFrames, IsDataFrame), ExpectedFrames(backend, objs))

\* C7 witness: two different frames from two objects reached the client
C7_Witness ==
    /\ backend = "gemini" /\ objs = <<"esc", "cand">>
    /\ Len(SelectSeq(resFrames, IsDataFrame)) = 2

HasStringBraces(k) == k \in {"brace", "esc"}

\* C8: for a body whose objects all carry braces, brackets or commas inside
\* quoted strings (also after an escaped quote), the Gemini scan loop cuts
\* out exactly those objects; `{"a":"}"}` alone yields exactly that object.
C8_BracesInsideStrings ==
    (backend = "gemini" /\ pending = <<>>
        /\ \A i \in 1..Len(objs): HasStringBraces(objs[i]))
    => /\ extracted = [i \in 1..Len(objs) |-> TextOf(objs[i])]
       /\ buffer = <<>>

\* C8 witness: the body {"a":"}"} was consumed and yielded that one object
C8_Witness ==
    /\ backend = "gemini" /\ objs = <<"brace">> /\ framing = "concat"
    /\ pending = <<>> /\ extracted = <<BraceText>>

FullText(r) == IF r.text = Null THEN "" ELSE r.text

FinalIndexes(fs) == {i \in 1..Len(fs): fs[i].id = "chatcmpl" /\ fs[i].via = "ka"}

\* C9: in keep-alive mode at most one final chunk is ever pushed; it has
\* role "assistant" and, for an upstream response with a candidate, the full
\* completion text as content; [DONE] and the end of the stream follow it
\* at once; no heartbeat is pushed after it and the timer is cleared once the
\* stream has ended; unless the handler also took its result.error branch,
\* the client receives nothing between the final chunk and [DONE] and
\* nothing after [DONE].
C9_FinalChunkThenDone ==
    /\ Cardinality(FinalIndexes(pushLog)) <= 1
    /\ \A i \in FinalIndexes(pushLog):
          /\ Len(finalData) = 1
          /\ pushLog[i].type = "chunk"
          /\ pushLog[i].role = "assistant"
          /\ finalData[1].cand => pushLog[i].content = FullText(finalData[1])
          /\ i < Len(pushLog) /\ pushLog[i + 1] = DoneFrame("ka")
          /\ ksEnded
          /\ \A j \in (i + 1)..Len(pushLog): pushLog[j].id # "keepalive"
          /\ ksEndEmitted => keepAliveTimerId = 0
    /\ hpc # "returnedError" =>
          \A i \in FinalIndexes(resFrames):
              /\ i < Len(resFrames) =>
                    (resFrames[i + 1].type = "done" /\ Len(resFrames) = i + 1)
              /\ resEnded => Len(resFrames) = i + 1

\* C9 witness: after a heartbeat the completion "ok" was delivered as the
\* final chunk, followed by [DONE], and the response ended
C9_Witness ==
    /\ resEnded /\ Len(resFrames) = 3
    /\ resFrames[1] = KeepAliveFrame
    /\ resFrames[2].id = "chatcmpl" /\ resFrames[2].content = "ok"
    /\ resFrames[3].type = "done"

\* C10 as claimed: in keep-alive mode the client receives at most one
\* error-shaped frame, and the frame after it is `data: [DONE]`.
C10_OneErrorFrameThenDone_AsClaimed ==
    /\ CountType(resFrames, "error") <= 1
    /\ \A i \in 1..Len(resFrames):
          (resFrames[i].type = "error" /\ i < Len(resFrames))
              => resFrames[i + 1].type = "done"
    /\ (resEnded /\ CountType(resFrames, "error") = 1) =>
          resFrames[Len(resFrames)].type = "done"

(***************************************************************************)
(* Keep-alive pump: cleanup, engagement, heartbeat frames                  *)
(***************************************************************************)
Cleaned == keepAliveTimerId = 0 /\ isConnectionClosed

\* the triggers of cleanup that are actions of their own
CleanupTrigger == StopHeartbeat \/ KeepAliveClientClose \/ KeepAlivePipeEnd

\* C11: in every reachable state of the keep-alive path, cleanup leaves the
\* timer id null, that interval cleared and the connection marked closed,
\* raises nothing, and applying it again to its result changes nothing; and
\* a trigger (stopHeartbeat, response close, stream end) that runs once
\* cleanup has already run leaves timer id, intervals and closed mark as
\* they are.
C11_CleanupIdempotent ==
    /\ [](LET c == cleanup(KaState)
          IN  /\ c.tid = 0 /\ c.closed /\ ~c.threw
              /\ KaState.tid \notin c.timers
              /\ cleanup([tid |-> c.tid, timers |-> c.timers,
                          closed |-> c.closed]) = c)
    /\ [][(Cleaned /\ CleanupTrigger) =>
              UNCHANGED <<keepAliveTimerId, armedTimers, isConnectionClosed>>]_vars

\* C11 witness: stopHeartbeat ran after the response had closed (cleanup
\* for the second time at least) and the stream's own end ran cleanup too
C11_Witness ==
    /\ "stopAfterClose" \in obs
    /\ ksEndEmitted
    /\ Cleaned

HeartbeatSeen ==
    \/ \E i \in 1..Len(pushLog): pushLog[i].id = "keepalive"
    \/ \E i \in 1..Len(resFrames): resFrames[i].id = "keepalive"

Dispatched == rpc \notin {"start", "rejected"}

\* C12: once the request has been dispatched, keepAliveCallback is non-null
\* exactly when the request has stream=true, the `keepalive` setting is on
\* and safety filtering is off for the key; the callback handed to the proxy
\* is that one; when it is non-null the SSE headers are already set while
\* the proxy is awaited; when it is null (and before dispatch) no heartbeat
\* frame is pushed or written and no interval is armed.
C12_KeepAliveEngagedIff ==
    /\ Dispatched =>
          /\ keepAliveCallback <=>
                (reqStream = "true" /\ keepAliveEnabled /\ ~isSafetyEnabled)
          /\ proxyCall[1].keepAliveCallback = keepAliveCallback
          /\ keepAliveCallback => SseHeaders \subseteq resHeaders
    /\ ~Dispatched => ~keepAliveCallback
    /\ ~keepAliveCallback => (~HeartbeatSeen /\ armedTimers = {})

\* C12 witness: keep-alive was engaged and a heartbeat reached the client
\* while the proxy was still awaited
C12_Witness ==
    /\ keepAliveCallback /\ rpc = "awaitProxy" /\ hpc = "awaitProxy"
    /\ \E i \in 1..Len(resFrames): resFrames[i] = KeepAliveFrame

\* C18: a request whose model id is missing or is not among the ids GET
\* /v1/models lists for the same configuration, once handled, has been
\* answered with status 400 and error type invalid_request_error, and for it
\* no proxy call was made, no header was set, keepAliveCallback is null, no
\* interval is armed and no frame was pushed or written.
C18_UnknownModelRejected ==
    (/\ rpc # "start"
     /\ \/ requestedModelId = <<>>
        \/ requestedModelId \notin
              ModelsData(modelsConfig, webSearchEnabled, vertexEnabled))
    => /\ rpc = "rejected"
       /\ resStatus = 400
       /\ Len(resBody) = 1
       /\ resBody[1].kind = "error"
       /\ resBody[1].type = "invalid_request_error"
       /\ proxyCall = <<>>
       /\ ~upstreamOpen
       /\ resHeaders = {}
       /\ ~keepAliveCallback
       /\ armedTimers = {} /\ keepAliveTimerId = 0
       /\ pushLog = <<>> /\ resFrames = <<>>

\* C18 witness: a stream request with keep-alive on and safety off, for an
\* id that is present but not listed, was rejected
C18_Witness ==
    /\ rpc = "rejected"
    /\ requestedModelId = <<"gpt-4">>
    /\ reqStream = "true" /\ keepAliveEnabled /\ ~isSafetyEnabled
    /\ modelsConfig # {}

\* C19: for every configuration, the set of ids GET /v1/models lists equals
\* the set of ids the validation of POST /v1/chat/completions accepts: the
\* two syntheses agree, a listing made holds exactly these ids, and a
\* request was let through validation exactly when its id is listed.
C19_ListedEqualsAccepted ==
    LET listed == ModelsData(modelsConfig, webSearchEnabled, vertexEnabled)
    IN  /\ listed = {id \in RequestIds: id # <<>> /\ id \in enabledModels}
        /\ modelsData # <<>> => modelsData[1] = listed
        /\ rpc = "rejected" => requestedModelId \notin listed
        /\ Dispatched => requestedModelId \in listed

\* C19 witness: web search and the alternate backend are on, the listing
\* was made, it holds a search id, a non-thinking id and an alternate-backend
\* id, and a request for the search id was let through
C19_Witness ==
    /\ webSearchEnabled /\ vertexEnabled
    /\ modelsData # <<>>
    /\ <<"gemini-2.5-flash-preview", "-search">> \in modelsData[1]
    /\ <<"gemini-2.5-flash-preview", ":non-thinking">> \in modelsData[1]
    /\ <<"[v]", "gemini-2.5-pro">> \in modelsData[1]
    /\ requestedModelId = <<"gemini-2.5-flash-preview", "-search">>
    /\ Dispatched

\* C20: a dispatched request whose id ends in `:non-thinking` was forwarded
\* with the id less that suffix and thinkingBudget 0; any other dispatched
\* request was forwarded with its id unchanged and thinkingBudget undefined;
\* the completion the handler builds carries the id the client sent.
C20_NonThinkingForwarding ==
    Dispatched =>
       /\ IF requestedModelId[Len(requestedModelId)] = ":non-thinking"
          THEN /\ proxyCall[1].model =
                     SubSeq(requestedModelId, 1, Len(requestedModelId) - 1)
               /\ proxyCall[1].thinkingBudget = "0"
          ELSE /\ proxyCall[1].model = requestedModelId
               /\ proxyCall[1].thinkingBudget = "undefined"
       /\ (resBody # <<>> /\ resBody[1].kind = "completion"
              /\ resBody[1].by = "handler")
            => resBody[1].model = requestedModelId

\* C20 witness: a non-stream request for a synthesized non-thinking id was
\* forwarded stripped, with thinkingBudget 0, and answered under the
\* requested id
C20_Witness ==
    /\ rpc = "done"
    /\ requestedModelId = <<"gemini-2.5-flash-preview", ":non-thinking">>
    /\ <<"gemini-2.5-flash-preview", ":non-thinking">> \notin modelsConfig
    /\ proxyCall[1].model = <<"gemini-2.5-flash-preview">>
    /\ proxyCall[1].thinkingBudget = "0"
    /\ resBody[1].model = requestedModelId

\* the pump has not been stopped, the response has not been completed and
\* the connection is open
PumpLive == ~isConnectionClosed /\ ~ResNotWritable /\ ~ksEnded

\* C13: a call of startHeartbeat, and every firing of an interval it armed,
\* made while the pump has not been stopped, the response has not been
\* completed and the connection is open, pushes exactly one heartbeat frame
\* and leaves the pump running; every heartbeat frame pushed or written is a
\* chat.completion.chunk with id "keepalive", an empty delta (no role, no
\* content) and finish_reason null.
C13_HeartbeatOnStartAndTick ==
    /\ [][((StartHeartbeat \/ TimerTick) /\ PumpLive) =>
             /\ pushLog' = Append(pushLog, KeepAliveFrame)
             /\ ksBuf' = Append(ksBuf, KeepAliveFrame)
             /\ keepAliveTimerId' # 0
             /\ keepAliveTimerId' \in armedTimers'
             /\ ~isConnectionClosed']_vars
    /\ [](\A f \in {pushLog[i] : i \in 1..Len(pushLog)}
               \cup {resFrames[i] : i \in 1..Len(resFrames)}:
             f.id = "keepalive" =>
                (f.type = "chunk" /\ f.role = Null /\ f.content = Null
                    /\ f.fin = Null))

\* C13 witness: after a single startHeartbeat the client has received the
\* immediate heartbeat and one more from a timer tick, and the pump is still
\* running
C13_Witness ==
    /\ Len(resFrames) = 2
    /\ resFrames[1] = KeepAliveFrame /\ resFrames[2] = KeepAliveFrame
    /\ nextTimerId = 2
    /\ PumpLive /\ keepAliveTimerId # 0

Visited(j) == j \in 1..(msgIdx - 1)

ElementsFrom(j) == {k \in 1..Len(contents): contents[k].from = j}

\* message i is an assistant message carrying a tool call with id X and
\* function name F
Carries(i, X, F) ==
    /\ messages[i].role = "assistant"
    /\ \E k \in 1..Len(messages[i].tool_calls):
          /\ messages[i].tool_calls[k].id = X
          /\ messages[i].tool_calls[k].name = F

\* the same, the tool call being of type 'function'
CarriesFunction(i, X, F) ==
    /\ messages[i].role = "assistant"
    /\ \E k \in 1..Len(messages[i].tool_calls):
          /\ messages[i].tool_calls[k].id = X
          /\ messages[i].tool_calls[k].name = F
          /\ messages[i].tool_calls[k].type = "function"

NamelessToolMessage(j, X) ==
    /\ messages[j].role = "tool"
    /\ messages[j].tool_call_id = X
    /\ messages[j].name = Null

AnsweredAs(j, F) ==
    \E k \in ElementsFrom(j):
       \E n \in 1..Len(contents[k].parts):
          contents[k].parts[n] = Part("functionResponse", F)

C16_UnresolvedToolMessageKept ==
    \A j \in 1..Len(messages):
       (/\ Visited(j)
        /\ messages[j].role = "tool"
        /\ messages[j].name = Null
        /\ \A i \in 1..(j - 1), F \in {"f", "g"}:
              ~CarriesFunction(i, messages[j].tool_call_id, F))
          => /\ Cardinality(ElementsFrom(j)) = 1
             /\ \A k \in ElementsFrom(j):
                   /\ contents[k].role = "user"
                   /\ contents[k].parts = <<Part("text", Null)>>

\* C16 witness: the tool message for x1 follows an assistant message whose
\* tool call x1 is not of type 'function' and was therefore not recorded; it
\* was emitted as text
C16_Witness ==
    /\ Len(messages) = 2 /\ msgIdx = 3
    /\ Carries(1, "x1", "f") /\ ~CarriesFunction(1, "x1", "f")
    /\ NamelessToolMessage(2, "x1")
    /\ contents = <<[role |-> "user", from |-> 2,
                     parts |-> <<Part("text", Null)>>]>>

\* a message that translates to zero parts: its content yields no part and
\* it carries no function tool call with a name
ZeroParts(j) ==
    /\ messages[j].role \in {"user", "assistant"}
    /\ messages[j].content # "string"
    /\ \A k \in 1..Len(messages[j].tool_calls):
          \/ messages[j].tool_calls[k].type # "function"
          \/ messages[j].tool_calls[k].name = Null

\* C17: every element of `contents` has role user or model and at least one
\* part; the elements stand in the order of the messages they were made
\* from, at most one per message; a translated message with zero parts has
\* no element.
C17_ContentsWellFormed ==
    /\ \A k \in 1..Len(contents):
          /\ contents[k].role \in {"user", "model"}
          /\ Len(contents[k].parts) >= 1
          /\ Visited(contents[k].from)
          /\ k > 1 => contents[k - 1].from < contents[k].from
    /\ \A j \in 1..Len(messages):
          (Visited(j) /\ ZeroParts(j)) => ElementsFrom(j) = {}

\* C17 witness: of three translated messages, a user message with no usable
\* part and an assistant message with no usable tool call were left out and
\* the third was emitted
C17_Witness ==
    /\ Len(messages) = 3 /\ msgIdx = 4
    /\ messages[1] = Msg("user", "unknownParts", <<>>, Null, Null)
    /\ messages[2].role = "assistant" /\ ZeroParts(2)
    /\ Len(contents) = 1 /\ contents[1].from = 3

LastOp == IF schemaOps = <<>> THEN "" ELSE schemaOps[Len(schemaOps)]

\* C22: schema sanitization is idempotent: sanitizeToolParameters applied to
\* its own result returns that result unchanged, for every schema built from
\* type (string or array), enum, const, anyOf/oneOf/allOf, properties,
\* items, additionalProperties and numeric constraints.
C22_SanitizeIdempotent ==
    LastOp = "sanitize" => schemaCur = schemaPrev

\* the second pass changes the schema {type: ["object", "string"]}
C22_Diverges ==
    /\ schemaIn = [type |-> TypeArray(<<"object", "string">>)]
    /\ schemaOps = <<"transform", "sanitize">>
    /\ schemaPrev = [anyOf |-> <<[type |-> TypeString("object")],
                                 [type |-> TypeString("string")]>>]
    /\ schemaCur = [anyOf |-> <<[type |-> TypeString("object")],
                                [type |-> TypeString("string")]>>,
                    type |-> TypeString("object")]


\* the sub-schemas one level below a node
SubSchemas(n) ==
    (IF Has(n, "properties")
     THEN {n["properties"][prop] : prop \in DOMAIN n["properties"]} ELSE {})
    \cup {n[key] : key \in DOMAIN n \cap {"items", "additionalProperties"}}
    \cup UNION {{n[key][i] : i \in 1..Len(n[key])} :
                   key \in DOMAIN n \cap ArrayOfObjects}

BannedKeywords == {"$schema", "$defs", "definitions", "patternProperties",
                   "examples", "deprecated", "readOnly", "writeOnly", "title"}

RECURSIVE ContainsBanned(_)
ContainsBanned(n) ==
    \/ DOMAIN n \cap BannedKeywords # {}
    \/ \E sub \in SubSchemas(n) : ContainsBanned(sub)

\* C23: the sanitized tool-parameter schema holds no banned keyword
\* ($schema, $defs, definitions, patternProperties, examples, deprecated,
\* readOnly, writeOnly, title) at any nesting depth, wherever the keyword
\* stood in the input: under properties, items, prefixItems,
\* additionalProperties or a combinator branch.
C23_NoBannedKeywordAnywhere ==
    "transform" \in {schemaOps[i] : i \in 1..Len(schemaOps)}
        => ~ContainsBanned(schemaCur)

\* a title below prefixItems survives the pre-processing and the sanitizer
C23_TitleUnderPrefixItems ==
    /\ schemaIn = [prefixItems |->
                      <<[type |-> TypeString("string"), title |-> "t"]>>]
    /\ schemaOps = <<"preprocess", "transform">>
    /\ schemaCur = [type |-> TypeString("array"),
                    prefixItems |->
                      <<[type |-> TypeString("string"), title |-> "t"]>>]

\* the combinator a node carries, "" when it carries none
RootCombinator(n) ==
    IF Has(n, "anyOf") THEN "anyOf"
    ELSE IF Has(n, "oneOf") THEN "oneOf"
    ELSE IF Has(n, "allOf") THEN "allOf"
    ELSE ""

\* a branch that admits null only: {type: "null"} or {enum: [null]}
NullOnlyBranch(b) ==
    \/ (Has(b, "type") /\ b["type"] = TypeString("null"))
    \/ (Has(b, "enum") /\ b["enum"] = <<"null">>)

HasObjectType(b) == Has(b, "type") /\ b["type"] = TypeString("object")

\* the branch the rule names: null-only branches removed, the rest
\* pre-processed, empty branches made {type: "object"}; then the first
\* branch of type "object", else the first branch, else {type: "object"}
CollapsedBranch(n) ==
    LET raw == n[RootCombinator(n)]
        remaining == SelectSeq(raw, LAMBDA b : ~NullOnlyBranch(b))
        clean == [i \in 1..Len(remaining) |->
                     transformJsonSchemaFields(remaining[i])]
        filled == [i \in 1..Len(clean) |->
                     IF clean[i] = EmptySchema THEN ObjectSchema
                     ELSE clean[i]]
        objects == {i \in 1..Len(filled) : HasObjectType(filled[i])}
    IN  IF Len(filled) = 0 THEN ObjectSchema
        ELSE IF objects # {}
             THEN filled[CHOOSE i \in objects : \A j \in objects : i <= j]
        ELSE filled[1]

\* C24: a node that has anyOf, oneOf or allOf is replaced entirely by one
\* branch: with the null-only branches removed and the empty branches made
\* {type: "object"}, the first branch whose type is "object", else the first
\* remaining branch, else {type: "object"}; the upstream receives that
\* branch, sanitized.
C24_CombinatorCollapse ==
    /\ (schemaOps = <<"preprocess">> /\ RootCombinator(schemaIn) # "")
          => schemaCur = CollapsedBranch(schemaIn)
    /\ (schemaOps = <<"preprocess", "transform">>
        /\ RootCombinator(schemaIn) # "")
          => schemaCur = SanitizeParameters(CollapsedBranch(schemaIn))

\* the parameters {$schema, anyOf: [{type: "null"}, {properties: {x:
\* {const: 3}}}]} reach the upstream as {type: "object", properties: {x:
\* {enum: [3]}}}
C24_Example ==
    /\ schemaIn = Put([anyOf |-> <<[type |-> TypeString("null")],
                                    [properties |-> [x |-> [const |-> "3"]]]>>],
                       "$schema", "u")
    /\ schemaOps = <<"preprocess", "transform">>
    /\ schemaCur = [type |-> TypeString("object"),
                    properties |-> [x |-> [enum |-> <<"3">>]]]

\* an {enum: [null]} branch is not removed: it is chosen as {type: "object"}
C24_EnumNullBranchChosen ==
    /\ schemaIn = [anyOf |-> <<[enum |-> <<"null">>],
                               [type |-> TypeString("string")]>>]
    /\ schemaOps = <<"preprocess", "transform">>
    /\ schemaCur = ObjectSchema

(***************************************************************************)
(* Response translators                                                     *)
(***************************************************************************)
OpenAiReasons == {"stop", "length", "content_filter", "tool_calls", Null}
KnownUpstreamReasons ==
    {"STOP", "MAX_TOKENS", "SAFETY", "RECITATION", "TOOL_CALLS",
     "FINISH_REASON_UNSPECIFIED", "OTHER", Null}

\* C25: the finish-reason map is total and closed: for every upstream
\* finishReason (STOP, MAX_TOKENS, SAFETY, RECITATION, TOOL_CALLS,
\* FINISH_REASON_UNSPECIFIED, OTHER, absent or an unknown string) the
\* translated finish_reason is stop, length, content_filter, tool_calls or
\* null, and an unknown upstream reason becomes null.
C25_FinishReasonClosed ==
    geminiResponse.shape = "ok" =>
        /\ "response" \in translated =>
              /\ completion[1].finish_reason \in OpenAiReasons
              /\ (geminiResponse.fr \notin KnownUpstreamReasons
                  /\ ~geminiResponse.tool)
                    => completion[1].finish_reason = Null
        /\ \A i \in 1..Len(chunkFrames) :
              /\ chunkFrames[i].fin \in OpenAiReasons
              /\ (geminiResponse.fr \notin KnownUpstreamReasons
                  /\ ~geminiResponse.tool)
                    => chunkFrames[i].fin = Null

\* the unknown reason BLOCKLIST is handed to the client as it is
C25_UnknownReasonPassedOn ==
    /\ geminiResponse.shape = "ok"
    /\ geminiResponse.fr = "BLOCKLIST" /\ ~geminiResponse.tool
    /\ translated = {"response", "chunk"}
    /\ completion[1].finish_reason = "BLOCKLIST"
    /\ chunkFrames[1].fin = "BLOCKLIST"

\* the finish reason the upstream value maps to when no tool call is looked at
MappedReason(fr) == MapFinishReasonResponse(fr, FALSE)

\* C26: when the candidate has a functionCall part and the mapped finish
\* reason is neither stop nor length, finish_reason is tool_calls, in the
\* single-shot translator and in the stream translator alike, for every
\* upstream finishReason.
C26_ToolCallsForced ==
    (/\ geminiResponse.shape = "ok"
     /\ geminiResponse.tool
     /\ MappedReason(geminiResponse.fr) \notin {"stop", "length"})
        => /\ "response" \in translated
                => completion[1].finish_reason = "tool_calls"
           /\ "chunk" \in translated
                => /\ Len(chunkFrames) = 1
                   /\ chunkFrames[1].fin = "tool_calls"

\* a function call that ends with SAFETY is reported as content_filter
C26_SafetyWins ==
    /\ geminiResponse.shape = "ok"
    /\ geminiResponse.tool /\ geminiResponse.fr = "SAFETY"
    /\ translated = {"response", "chunk"}
    /\ completion[1].finish_reason = "content_filter"
    /\ chunkFrames[1].fin = "content_filter"

\* C27: when the upstream response has no candidates,
\* transformGeminiResponseToOpenAI returns an error-shaped chat.completion
\* whose finish_reason is content_filter if promptFeedback.blockReason is
\* present and error otherwise, with all usage counters 0.
C27_MissingCandidates ==
    (/\ geminiResponse.shape \in {"noCandidates", "emptyCandidates"}
     /\ "response" \in translated)
        => /\ completion[1].object = "chat.completion"
           /\ completion[1].id = "chatcmpl-error"
           /\ completion[1].finish_reason =
                 (IF geminiResponse.block THEN "content_filter" ELSE "error")
           /\ completion[1].usage = <<0, 0, 0>>

\* a blocked prompt whose usageMetadata carries counts has been translated
C27_Witness ==
    /\ geminiResponse.shape = "emptyCandidates"
    /\ geminiResponse.block /\ geminiResponse.usage
    /\ "response" \in translated
    /\ completion[1].finish_reason = "content_filter"

\* C28: transformGeminiResponseToOpenAI never raises to its caller: for
\* every input, null, a non-object and malformed parts included, it returns
\* a well-formed chat.completion, and when the translation fails that
\* completion has finish_reason "error".
C28_NeverRaises ==
    "response" \in translated
        => /\ ~completion[1].raised
           /\ completion[1].object = "chat.completion"
           /\ completion[1].content \in
                 {Null, "ok", "Error processing Gemini response",
                  "Gemini response missing candidates.",
                  "Request blocked by Gemini",
                  "[Content blocked due to safety settings]"}
           /\ Len(completion[1].usage) = 3
           /\ ThrowsInResponse(geminiResponse)
                 => /\ completion[1].finish_reason = "error"
                    /\ completion[1].id = "chatcmpl-error"

\* a response whose parts hold null has been translated
C28_Witness ==
    /\ geminiResponse.shape = "nullPart"
    /\ "response" \in translated
    /\ completion[1].finish_reason = "error"

(***************************************************************************)
(* Response headers                                                         *)
(***************************************************************************)
\* a successful chat completion has begun to answer: the JSON body is
\* written, the standard stream is set up, or the proxy has returned
\* isKeepAlive and a frame of the keep-alive stream has reached the client
SuccessfulResponse ==
    \/ (rpc = "done" /\ resStatus = 200)
    \/ rpc = "streaming"
    \/ (keepAliveCallback /\ hpc = "returnedKeepAlive" /\ resFrames # <<>>)

\* C29 as stated: every successful chat-completion response, non-streamed,
\* streamed or keep-alive streamed, carries both X-Proxied-By and
\* X-Selected-Key-ID before its first body byte is written.
C29_BothHeadersOnSuccess_AsClaimed ==
    SuccessfulResponse => {"X-Proxied-By", "X-Selected-Key-ID"} \subseteq resHeaders

\* C29: a successful non-streamed or streamed chat completion carries both
\* X-Proxied-By and X-Selected-Key-ID before its first body byte is written;
\* a keep-alive response carries X-Proxied-By and no X-Selected-Key-ID.
C29_HeadersByPath ==
    /\ ((rpc = "done" /\ resStatus = 200) \/ rpc = "streaming")
          => {"X-Proxied-By", "X-Selected-Key-ID"} \subseteq resHeaders
    /\ keepAliveCallback
          => /\ "X-Proxied-By" \in resHeaders
             /\ "X-Selected-Key-ID" \notin resHeaders

\* a non-streamed completion has been written with both headers
C29_Witness ==
    /\ rpc = "done" /\ resStatus = 200 /\ resBody # <<>>
    /\ reqStream = "absent"
    /\ {"X-Proxied-By", "X-Selected-Key-ID"} \subseteq resHeaders

\* a keep-alive response has sent two frames without X-Selected-Key-ID
C29_KeepAliveWithoutKeyId ==
    /\ keepAliveCallback /\ hpc = "returnedKeepAlive"
    /\ Len(resFrames) >= 2
    /\ "X-Proxied-By" \in resHeaders
    /\ "X-Selected-Key-ID" \notin resHeaders

(***************************************************************************)
(* Tool function names                                                      *)
(***************************************************************************)
\* ^[A-Za-z_][A-Za-z0-9_.:-]{0,63}$
MatchesNamePattern(n) ==
    /\ Len(n) >= 1 /\ Len(n) <= 64
    /\ n[1] \in Letters \cup {"_"}
    /\ \A i \in 1..Len(n) : n[i] \in NameChars

NamesDone == namePc = "next" /\ nameIdx > Len(fnNames)

\* C30: after the pre-processing every tool function name matches
\* ^[A-Za-z_][A-Za-z0-9_.:-]{0,63}$ and the names declared within one tool
\* are pairwise distinct, a collision being resolved by _2, _3, ... within
\* 64 characters; and the de-duplication loop terminates: it makes at most
\* one iteration more than there are names already taken (a truncated
\* candidate may equal the proposed name itself), and every declaration
\* gets its name.
C30_NamesValidDistinctAndLoopEnds ==
    /\ \A i \in 1..Len(outNames) : MatchesNamePattern(outNames[i])
    /\ \A i, j \in 1..Len(outNames) : i # j => outNames[i] # outNames[j]
    /\ usedNames = {outNames[i] : i \in 1..Len(outNames)}
    /\ namePc = "loop" => /\ counter - 2 <= Cardinality(usedNames) + 1
                          /\ MatchesNamePattern(unique)
    /\ NamesDone => Len(outNames) = Len(fnNames)

\* two declarations of 64 and 65 letters and a function named like the
\* first candidate: the third name is found at _3
C30_Witness ==
    /\ NamesDone
    /\ Len(fnNames) = 3
    /\ fnNames[1].name = Run(64) /\ fnNames[2].name = Run(65)
    /\ fnNames[3].name = Run(62) \o <<"_", "2">>
    /\ outNames = <<Run(64), Run(62) \o <<"_", "2">>,
                    Run(62) \o <<"_", "3">>>>

(***************************************************************************)
(* C31  On the path without keep-alive, a result that carries an error is  *)
(* answered with one JSON error body whose status is result.status when    *)
(* there is one and 500 when there is none, and nothing is written to the  *)
(* response as an SSE frame.                                               *)
(***************************************************************************)
C31_ErrorAnsweredAsJson ==
    (result # <<>> /\ result[1].error /\ ~keepAliveCallback) =>
        /\ Len(resBody) = 1
        /\ resBody[1].kind = "error"
        /\ "Content-Type: application/json" \in resHeaders
        /\ resStatus = (IF result[1].status # 0 THEN result[1].status ELSE 500)
        /\ resFrames = <<>>
        /\ resHeaders \cap SseHeaders = {}

\* an error without a status has been answered with 500
C31_Witness ==
    /\ result # <<>> /\ result[1].error /\ ~keepAliveCallback
    /\ result[1].status = 0
    /\ resStatus = 500
    /\ reqStream = "true"

(***************************************************************************)
(* POST /v1/embedded, apiV1.js 1112-1134                                   *)
(*                                                                         *)
(* The handler awaits geminiProxyService.proxyEmbedded(req.body, key) and  *)
(* answers inside one try block; its catch block calls next(error).        *)
(***************************************************************************)
EmbeddingModels == {<<"text-embedding-004">>, <<"gemini-embedding-001">>}

\* geminiResponse.body of a successful embedding call
EmbeddingBodies == {"embedding", "embeddings", "emptyEmbeddings", "other"}

\* what proxyEmbedded resolves with
EmbeddedResults ==
    [error : {TRUE}, status : UpstreamStatuses, responseStatus : {0},
     body : {Null}, selectedKeyId : {Null}]
    \cup [error : {FALSE}, status : {0}, responseStatus : {0, 200, 206},
          body : EmbeddingBodies, selectedKeyId : {"k1", "k2"}]

\* the identifiers bound where line 1129 is evaluated: the handler's
\* parameters (1112), its const declarations (1114, 1126) and the module's
\* top-level bindings (2-14, 1095-1098).  requestedModelId is declared at
\* 387, inside the handler of /chat/completions.
EmbeddedScope ==
    {"req", "res", "next", "result", "geminiResponse", "selectedKeyId",
     "modelCategory", "transformUtils", "geminiProxyService", "configService",
     "vertexProxyService", "requireWorkerAuth", "router", "express", "path",
     "Readable", "Transform", "OpenAPIV3Validator", "openApiSpecPath",
     "validateMiddleware"}

\* an embedding body read by transformGeminiResponseToOpenAI: it has no
\* candidates, no promptFeedback and no usageMetadata
AsGeminiResponse(body) ==
    [shape |-> "noCandidates", block |-> FALSE, text |-> Null, tool |-> FALSE,
     fr |-> Null, usage |-> FALSE]

\* the request reaches the handler and the proxy is called: 1113-1117
EmbeddedCall ==
    /\ epc = "start"
    /\ epc' = "awaitProxy"
    /\ proxyCall' = <<[service |-> "gemini", call |-> "proxyEmbedded",
                       model |-> bodyModel]>>
    /\ UNCHANGED <<resVars, kaVars, upstreamOpen, stVars, modelsConfig,
                   webSearchEnabled, vertexEnabled, keepAliveEnabled,
                   isSafetyEnabled, reqStream, requestedModelId, bodyModel, rpc,
                   keepAliveCallback, resStatus, resHeaders, resBody,
                   modelsData, result, nextArg>>
    /\ UNCHANGED embeddedFrame

\* the proxy resolves with result.error: 1119-1123
EmbeddedError ==
    /\ epc = "awaitProxy"
    /\ \E r \in EmbeddedResults:
          /\ r.error
          /\ result' = <<r>>
    /\ resStatus' = StatusOr(result'[1].status, 500)
    /\ resHeaders' = resHeaders \cup {"Content-Type: application/json"}
    /\ resBody' = <<Body("error", "upstream_error", <<>>, "handler")>>
    /\ epc' = "answered"
    /\ UNCHANGED <<resVars, kaVars, upstreamOpen, stVars, modelsConfig,
                   webSearchEnabled, vertexEnabled, keepAliveEnabled,
                   isSafetyEnabled, reqStream, requestedModelId, bodyModel, rpc,
                   keepAliveCallback, proxyCall, modelsData, nextArg>>
    /\ UNCHANGED embeddedFrame

\* the proxy resolves without result.error: 1125-1133.  The headers are set
\* (1127-1128) and res.status(...) is called (1129) before the argument of
\* .send is evaluated; an identifier that is not bound raises a
\* ReferenceError there, which the catch block hands to next (1130-1133).
EmbeddedSuccess ==
    /\ epc = "awaitProxy"
    /\ \E r \in EmbeddedResults:
          /\ ~r.error
          /\ result' = <<r>>
    /\ resHeaders' = resHeaders \cup CommonHeaders
    /\ resStatus' = StatusOr(result'[1].responseStatus, 200)
    /\ IF {"transformUtils", "geminiResponse", "requestedModelId"}
              \subseteq EmbeddedScope
       THEN /\ resBody' = <<ResponseToOpenAI(AsGeminiResponse(result'[1].body))>>
            /\ epc' = "answered"
            /\ UNCHANGED nextArg
       ELSE /\ nextArg' = <<"ReferenceError">>
            /\ epc' = "next"
            /\ UNCHANGED resBody
    /\ UNCHANGED <<resVars, kaVars, upstreamOpen, stVars, modelsConfig,
                   webSearchEnabled, vertexEnabled, keepAliveEnabled,
                   isSafetyEnabled, reqStream, requestedModelId, bodyModel, rpc,
                   keepAliveCallback, proxyCall, modelsData>>
    /\ UNCHANGED embeddedFrame

\* a request that has passed validateMiddleware arrives
EmbeddedInit ==
    /\ ResInit
    /\ KeepAliveIdle
    /\ StreamIdle
    /\ upstreamOpen = FALSE
    /\ modelsConfig \in SUBSET {<<"gemini-2.5-flash">>, <<"gemini-2.5-pro">>}
    /\ webSearchEnabled = FALSE /\ vertexEnabled = FALSE
    /\ keepAliveEnabled \in BOOLEAN /\ isSafetyEnabled \in BOOLEAN
    /\ reqStream = "absent" /\ requestedModelId = <<>>
    /\ bodyModel \in EmbeddingModels
    /\ rpc = "idle" /\ keepAliveCallback = FALSE /\ resStatus = 0
    /\ resHeaders = {} /\ resBody = <<>> /\ proxyCall = <<>>
    /\ modelsData = <<>> /\ result = <<>>
    /\ TranslatorIdle
    /\ SchemaIdle
    /\ ResponseIdle
    /\ NamesIdle
    /\ epc = "start" /\ nextArg = <<>>
    /\ DocumentIdle
    /\ ToolsIdle
    /\ DbIdle

EmbeddedNext == EmbeddedCall \/ EmbeddedError \/ EmbeddedSuccess

SpecEmbedded == EmbeddedInit /\ [][EmbeddedNext]_vars

(***************************************************************************)
(* C32  POST /v1/embedded answers the client itself in both outcomes of    *)
(* the upstream call: a result without error is answered with the upstream *)
(* status (or 200), both common headers and a body; a result with error is *)
(* answered with result.status (or 500) and the error object; next(error)  *)
(* is called in neither outcome.                                           *)
(***************************************************************************)
C32_EmbeddedAnswersItself ==
    (result # <<>>) =>
        /\ nextArg = <<>>
        /\ Len(resBody) = 1
        /\ IF result[1].error
           THEN /\ resStatus = (IF result[1].status # 0
                                THEN result[1].status ELSE 500)
                /\ resBody[1].kind = "error"
           ELSE /\ resStatus = (IF result[1].responseStatus # 0
                                THEN result[1].responseStatus ELSE 200)
                /\ CommonHeaders \subseteq resHeaders

\* the upstream call has succeeded and the handler has called next(error)
\* without sending a body
C32_SuccessHandedToNext ==
    /\ result # <<>> /\ ~result[1].error
    /\ result[1].body = "embedding" /\ result[1].responseStatus = 200
    /\ nextArg = <<"ReferenceError">>
    /\ resBody = <<>>
    /\ resStatus = 200 /\ CommonHeaders \subseteq resHeaders

(***************************************************************************)
(* transformJsonSchemaFields(schemaObj, parentDefs, visited, depth),       *)
(* apiV1.js 95-258, on documents whose nodes have an identity              *)
(*                                                                         *)
(* The request body is parsed JSON, a tree: the identity of a node is its  *)
(* path from the root, and `visited` is a set of paths.  A $ref is         *)
(* <<prefix, name>>; $defs and definitions are records from names to       *)
(* schemas; the merged definitions map a name to the node and its          *)
(* identity.  The objects the function builds are new: their identity      *)
(* starts with "new".  A call returns [out, log, raised]: the value        *)
(* returned, the calls made (identity, depth, whether the node was in      *)
(* `visited`, value returned) and whether a TypeError left the function.   *)
(* Each value is handed in with its JSON kind: "object", "props" (the      *)
(* object that is a `properties` map), "array" or "scalar".                *)
(***************************************************************************)
MAX_RECURSION_DEPTH == 20

LocalPrefixes == {"#/$defs/", "#/definitions/"}

\* array indexes as path elements
Index == <<"1", "2", "3">>

Call(id, depth, visited, empty) ==
    [id |-> id, depth |-> depth, met |-> id \in visited, empty |-> empty]

\* a call that makes no further call; `empty`: it returned {}
Return(out, empty, id, depth, visited) ==
    [out |-> out, log |-> {Call(id, depth, visited, empty)}, raised |-> FALSE]

\* a call that has made the calls `children` (a sequence of what they returned)
Gather(out, empty, children, id, depth, visited) ==
    [out |-> out,
     log |-> {Call(id, depth, visited, empty)}
                \cup UNION {children[k].log : k \in 1..Len(children)},
     raised |-> \E k \in 1..Len(children) : children[k].raised]

\* the JSON kind of schemaObj[key] in the documents of the model
ChildKind(kind, key) ==
    IF kind = "props" THEN "object"
    ELSE IF key = "properties" THEN "props"
    ELSE IF key \in {"items", "additionalProperties"} THEN "object"
    ELSE IF key \in ArrayOfObjects THEN "array"
    ELSE "scalar"

\* one of $defs / definitions of a node, each entry with its identity
DefsOf(node, id, key) ==
    IF Has(node, key)
    THEN [n \in DOMAIN node[key] |->
             [node |-> node[key][n], id |-> id \o <<key, n>>]]
    ELSE <<>>

\* currentLevelDefs, 118-122
currentLevelDefs(parentDefs, node, id) ==
    [n \in DOMAIN parentDefs \cup DOMAIN DefsOf(node, id, "$defs")
            \cup DOMAIN DefsOf(node, id, "definitions") |->
        IF n \in DOMAIN DefsOf(node, id, "definitions")
        THEN DefsOf(node, id, "definitions")[n]
        ELSE IF n \in DOMAIN DefsOf(node, id, "$defs")
        THEN DefsOf(node, id, "$defs")[n]
        ELSE parentDefs[n]]

\* post-processing 1), 183-195; in a `properties` map the value of `type`
\* is a schema, never the string 'string'
DropEnum(t, kind) ==
    IF /\ Has(t, "enum")
       /\ ~(kind # "props" /\ Has(t, "type") /\ t["type"] = TypeString("string"))
    THEN Del(t, {"enum"})
    ELSE t

\* the keys the loop at 159-178 skips
SkippedKeys ==
    {"$schema", "$defs", "$ref", "additionalProperties", "patternProperties",
     "definitions"}

\* .filter(!isNullish).map(isEmptySchema ? {type:'object'} : sub), 226-228
FilterBranches(subs) ==
    LET live == SelectSeq(subs, LAMBDA sub : ~isNullish(sub))
    IN  [i \in 1..Len(live) |->
            IF isEmptySchema(live[i]) THEN ObjectSchema ELSE live[i]]

\* the keys of a record in a fixed order
RECURSIVE KeySeq(_)
KeySeq(K) == IF K = {} THEN <<>>
             ELSE LET k == CHOOSE k \in K : TRUE
                  IN  <<k>> \o KeySeq(K \ {k})

\* mutant of Revisited: no cycle detection
Revisited_Never(id, visited) == FALSE

\* visited.has(schemaObj), 107
Revisited(id, visited) == id \in visited

RECURSIVE transformJsonSchemaFieldsAt(_, _, _, _, _, _)

\* Array.isArray(schemaObj), 112-116
ArrayResult(items, id, depth, visited) ==
    Gather([i \in 1..Len(items) |-> items[i].out], FALSE, items, id, depth,
           visited)

TransformArray(node, id, defs, visited, depth) ==
    CHOOSE r \in
        {ArrayResult(items, id, depth, visited) :
            items \in {[i \in 1..Len(node) |->
                          transformJsonSchemaFieldsAt(node[i], "object",
                              id \o <<Index[i]>>, defs, visited \cup {id},
                              depth + 1)]}} : TRUE

\* schemaObj.$ref, 127-154.  In a `properties` map the value of the key is a
\* schema, and refPath.startsWith is not a function.
RefResult(resolvedRef, id, depth, visited) ==
    Gather(resolvedRef.out, isEmptySchema(resolvedRef.out), <<resolvedRef>>,
           id, depth, visited)

TransformRef(node, kind, id, cur, visited, depth) ==
    IF kind = "props"
    THEN [out |-> EmptySchema, log |-> {Call(id, depth, visited, FALSE)},
          raised |-> TRUE]
    ELSE IF node["$ref"][1] \in LocalPrefixes /\ node["$ref"][2] \in DOMAIN cur
    THEN CHOOSE r \in
             {RefResult(resolvedRef, id, depth, visited) :
                 resolvedRef \in
                     {transformJsonSchemaFieldsAt(cur[node["$ref"][2]].node,
                          "object", cur[node["$ref"][2]].id, cur,
                          visited \cup {id}, depth + 1)}} : TRUE
    ELSE Return(EmptySchema, TRUE, id, depth, visited)

\* post-processing 3), 213-252: the branches have been transformed again
CollapseResult(again, children, id, depth, visited) ==
    LET branches == IF Len(again) = 0 THEN <<ObjectSchema>>
                    ELSE [i \in 1..Len(again) |-> again[i].out]
    IN  Gather(InferTypeT(preferred(branches)),
               isEmptySchema(InferTypeT(preferred(branches))),
               children \o again, id, depth, visited)

Collapse(filled, children, combKey, id, cur, visited, depth) ==
    CHOOSE r \in
        {CollapseResult(again, children, id, depth, visited) :
            again \in {[i \in 1..Len(filled) |->
                          transformJsonSchemaFieldsAt(filled[i], "object",
                              <<"new">> \o id \o <<combKey, Index[i]>>, cur,
                              visited \cup {id}, depth + 1)]}} : TRUE

\* post-processing 1) to 3), 180-256, of the object the loop has built
PostProcess(post, children, kind, id, cur, visited, depth) ==
    LET \* Array.isArray(transformedObj[combKey]): the key holds an array
        \* that the recursion has not cut to {}
        present == {c \in 1..3 : /\ Has(post, Combinators[c])
                                 /\ ChildKind(kind, Combinators[c]) = "array"
                                 /\ depth + 1 <= MAX_RECURSION_DEPTH}
        combKey == Combinators[CHOOSE c \in present : \A d \in present : c <= d]
    IN  IF present = {} \/ \E i \in 1..Len(children) : children[i].raised
        THEN Gather(post, isEmptySchema(post), children, id, depth, visited)
        ELSE Collapse(FilterBranches(post[combKey]), children, combKey, id,
                      cur, visited, depth)

\* transformedObj after the loop at 159-178
Transformed(keys, children) ==
    [key \in {keys[i] : i \in 1..Len(keys)} |->
        children[CHOOSE i \in 1..Len(keys) : keys[i] = key].out]

KeysResult(keys, children, kind, id, cur, visited, depth) ==
    PostProcess(InferTypeT(DropEnum(Transformed(keys, children), kind)),
                children, kind, id, cur, visited, depth)

\* the loop over the keys, 157-178
TransformKeys(node, keys, kind, id, cur, visited, depth) ==
    CHOOSE r \in
        {KeysResult(keys, children, kind, id, cur, visited, depth) :
            children \in {[i \in 1..Len(keys) |->
                             transformJsonSchemaFieldsAt(node[keys[i]],
                                 ChildKind(kind, keys[i]), id \o <<keys[i]>>,
                                 cur, visited \cup {id}, depth + 1)]}} : TRUE

transformJsonSchemaFieldsAt(schemaObj, kind, id, parentDefs, visited, depth) ==
    IF depth > MAX_RECURSION_DEPTH
    THEN Return(EmptySchema, TRUE, id, depth, visited)
    ELSE IF kind # "scalar" /\ Revisited(id, visited)
    THEN Return(EmptySchema, TRUE, id, depth, visited)
    ELSE IF kind = "array"
    THEN TransformArray(schemaObj, id, parentDefs, visited, depth)
    ELSE IF kind = "scalar" THEN Return(schemaObj, FALSE, id, depth, visited)
    ELSE CHOOSE r \in
             {IF Has(schemaObj, "$ref")
              THEN TransformRef(schemaObj, kind, id, cur, seen, depth)
              ELSE TransformKeys(schemaObj, keys, kind, id, cur, seen, depth) :
                 cur \in {currentLevelDefs(parentDefs, schemaObj, id)},
                 keys \in {KeySeq(DOMAIN schemaObj \ SkippedKeys)},
                 seen \in {visited}} : TRUE

\* ---- the documents of the model
MaxChain == 22

DefNames == {"A", "B"}

Ref(prefix, name) == Put(EmptySchema, "$ref", <<prefix, name>>)

\* schemas that refer to the definition `name`: directly, from a property,
\* from the items, from a branch of a combinator
Referring(name) ==
    { Ref("#/$defs/", name),
      [properties |-> [x |-> Ref("#/$defs/", name)]],
      [items |-> Ref("#/definitions/", name)],
      [anyOf |-> <<Ref("#/$defs/", name), [type |-> TypeString("string")]>>] }

\* the bodies of the definitions: they may refer to themselves, to each
\* other, to a name that is not defined, or to another document
DefBodies ==
    UNION {Referring(n) : n \in DefNames}
    \cup { [type |-> TypeString("string")],
           Ref("#/$defs/", "C"),
           Ref("https://example.com/s.json#/", "A") }

\* the root's own keywords; the last one shadows A in a nested $defs
RootBodies ==
    Referring("A")
    \cup { Ref("#/$defs/", "B"),
           [properties |->
               [x |-> Put(Ref("#/$defs/", "A"), "$defs",
                          [A |-> [type |-> TypeString("integer")]])]] }

RefDocuments ==
    {Put(body, defsKey, [A |-> a, B |-> b]) :
        body \in RootBodies, defsKey \in {"$defs"}, a \in DefBodies,
        b \in DefBodies}
    \cup {Put(Ref("#/definitions/", "A"), "definitions", [A |-> a, B |-> b]) :
            a \in Referring("A") \cup Referring("B"), b \in Referring("A")}

\* `items` nested k deep around a string schema
RECURSIVE Chain(_)
Chain(k) == IF k = 0 THEN [type |-> TypeString("string")]
            ELSE [items |-> Chain(k - 1)]

\* chains that end before, at and after the depth limit; the last document
\* has a chain next to a definition that refers to itself
ChainDocuments ==
    {Chain(k) : k \in (MaxChain - 4)..MaxChain}
    \cup {Put([items |-> Chain(MaxChain - 1),
               properties |-> [x |-> Ref("#/$defs/", "A")]],
              "$defs", [A |-> [items |-> Ref("#/$defs/", "A")]])}

\* property names, some of them equal to schema keywords
PropertyNames ==
    {"x", "enum", "definitions", "additionalProperties", "$ref", "title",
     "type"}

PropertyMaps ==
    {[n \in S |-> [type |-> TypeString("string")]] :
        S \in {S \in SUBSET PropertyNames : Cardinality(S) \in {1, 2}}}

PropertyDocuments ==
    {[type |-> TypeString("object"), properties |-> m] : m \in PropertyMaps}
    \cup {[type |-> TypeString("object"),
           properties |-> [x |-> [type |-> TypeString("object"),
                                  properties |-> m]]] : m \in PropertyMaps}

Documents == RefDocuments \cup ChainDocuments \cup PropertyDocuments

\* fnDecl.parameters = transformJsonSchemaFields(fnDecl.parameters, {}, new
\* WeakSet(), 0), apiV1.js 323 and 358
TransformDocument ==
    /\ run = <<>>
    /\ run' = <<transformJsonSchemaFieldsAt(document, "object", <<>>, <<>>, {}, 0)>>
    /\ UNCHANGED <<document, documentFrame>>

DocumentInit ==
    /\ ResInit
    /\ KeepAliveIdle
    /\ StreamIdle
    /\ RequestIdle
    /\ TranslatorIdle
    /\ SchemaIdle
    /\ ResponseIdle
    /\ NamesIdle
    /\ EmbeddedIdle
    /\ ToolsIdle
    /\ DbIdle
    /\ upstreamOpen = FALSE
    /\ document \in Documents
    /\ run = <<>>

DocumentNext == TransformDocument

SpecDocument == DocumentInit /\ [][DocumentNext]_vars

(***************************************************************************)
(* C33  transformJsonSchemaFields returns for every document, also when    *)
(* the definitions refer to themselves or to each other: no call is made   *)
(* deeper than one level past MAX_RECURSION_DEPTH, a call deeper than      *)
(* MAX_RECURSION_DEPTH returns {}, and a call on a node that is on the     *)
(* current recursion path returns {}.                                      *)
(***************************************************************************)
C33_RecursionBounded ==
    (run # <<>>) =>
        \A c \in run[1].log :
            /\ c.depth <= MAX_RECURSION_DEPTH + 1
            /\ (c.depth > MAX_RECURSION_DEPTH => c.empty)
            /\ (c.met => c.empty)

\* a document with a definition that refers to itself and with a chain
\* longer than the limit has been transformed: one call met a node of its
\* path, another one was made past the limit
C33_Witness ==
    /\ run # <<>>
    /\ ~run[1].raised
    /\ \E c \in run[1].log : c.met /\ c.depth <= MAX_RECURSION_DEPTH
    /\ \E c \in run[1].log : ~c.met /\ c.depth > MAX_RECURSION_DEPTH

\* two definitions that refer to each other have been transformed
C33_MutualReference ==
    /\ run # <<>>
    /\ Has(document, "$defs")
    /\ document["$defs"]["A"] = [properties |-> [x |-> Ref("#/$defs/", "B")]]
    /\ document["$defs"]["B"] = [items |-> Ref("#/definitions/", "A")]
    /\ Has(document, "$ref")
    /\ \E c \in run[1].log : c.met /\ c.id = <<"$defs", "A">>

(***************************************************************************)
(* C40  For a schema without $ref and without combinators, every property *)
(* name of a `properties` map is a key of the `properties` map that        *)
(* transformJsonSchemaFields returns for the same node, also when the name *)
(* is equal to a schema keyword.                                           *)
(***************************************************************************)
NamesKept(in, out) ==
    /\ Has(out, "properties")
    /\ DOMAIN in["properties"] \subseteq DOMAIN out["properties"]

C40_PropertyNamesPreserved ==
    (run # <<>> /\ document \in PropertyDocuments) =>
        /\ ~run[1].raised
        /\ NamesKept(document, run[1].out)
        /\ (Has(document["properties"], "x")
              /\ Has(document["properties"]["x"], "properties")) =>
                NamesKept(document["properties"]["x"],
                          run[1].out["properties"]["x"])

\* the properties `enum` and `x` went in, only `x` came out
C40_EnumPropertyDropped ==
    /\ run # <<>>
    /\ document = [type |-> TypeString("object"),
                   properties |-> [enum |-> [type |-> TypeString("string")],
                                   x |-> [type |-> TypeString("string")]]]
    /\ run[1].out = [type |-> TypeString("object"),
                     properties |-> [x |-> [type |-> TypeString("string")]]]

\* a property named $ref made the call raise
C40_RefPropertyRaises ==
    /\ run # <<>>
    /\ document \in PropertyDocuments
    /\ DOMAIN document["properties"] = {"$ref"}
    /\ run[1].raised

\* every property whose name is none of enum, definitions,
\* additionalProperties, $ref is kept
C40_OtherNamesKept ==
    (run # <<>> /\ document \in PropertyDocuments
        /\ Has(document["properties"], "x")
        /\ ~Has(document["properties"]["x"], "properties")
        /\ ~Has(document["properties"], "$ref")) =>
        /\ ~run[1].raised
        /\ DOMAIN document["properties"]
              \ {"enum", "definitions", "additionalProperties"}
                \subseteq DOMAIN run[1].out["properties"]

(***************************************************************************)
(* The tools step of transformOpenAiToGemini, apiV1.js 1819-1854, and      *)
(* sanitizeToolParameters, 1480-1664, with the identity of the objects     *)
(*                                                                         *)
(* A held object is [val, own]: its value and whether it is the caller's   *)
(* object ("input") or one the function has made ("new").  A write to a    *)
(* held object changes the caller's object exactly when own = "input".     *)
(***************************************************************************)
MaxTools == 2

Held(val, own) == [val |-> val, own |-> own]

\* JSON.parse(JSON.stringify(val)) of a JSON value: the same value in new
\* objects
JsonRoundTrip(o) == Held(o.val, "new")

\* mutant of clone: no copy is made
clone_Alias(o) == o

\* clone, 1497-1499
clone(o) == JsonRoundTrip(o)

\* return sanitize(clone(schema), '#'), 1663; sanitize starts with
\* s = clone(node) (1510) and makes its writes to s
sanitizeHeld(schema) ==
    Held(sanitizeToolParameters(schema.val), clone(clone(schema)).own)

\* the caller's object after a call that returned `returned`
After(o, returned) == IF returned.own = "input" THEN returned.val ELSE o.val

\* delete parameters.$schema, 1828-1831
DeleteSchemaKey(o) == Held(Del(o.val, {"$schema"}), o.own)

\* parameters.type = 'object' when the root looks like an object, 1840-1842
RootType(o) ==
    IF ~Has(o.val, "type")
       /\ (Has(o.val, "properties") \/ Has(o.val, "required")
           \/ Has(o.val, "additionalProperties"))
    THEN Held(Put(o.val, "type", TypeString("object")), o.own)
    ELSE o

\* the parameters of one declaration, 1826-1843
DeclaredParameters(parameters) ==
    RootType(sanitizeHeld(DeleteSchemaKey(JsonRoundTrip(Held(parameters, "input")))))

\* .filter(tool => tool.type === 'function' && tool.function), 1822
FunctionTools(tools) == SelectSeq(tools, LAMBDA tool : tool.type = "function")

\* one entry of functionDeclarations, 1844-1848
Declaration(tool) ==
    [name |-> tool.name,
     parameters |-> IF tool.parameters = <<>> THEN <<>>
                    ELSE <<DeclaredParameters(tool.parameters[1]).val>>]

\* the tool as it is after its declaration has been built
ToolAfter(tool) ==
    IF tool.type # "function" \/ tool.parameters = <<>> THEN tool
    ELSE [tool EXCEPT !.parameters =
             <<After(Held(tool.parameters[1], "input"),
                     DeclaredParameters(tool.parameters[1]))>>]

\* the schemas of the tools
ParameterSchemas ==
    { EmptySchema,
      Put([type |-> TypeString("object"),
           properties |-> [x |-> [const |-> "3"]]], "$schema", "u"),
      [properties |-> [x |-> [type |-> TypeString("string"), title |-> "t"]]],
      [type |-> TypeArray(<<"object", "string">>)],
      [anyOf |-> <<[type |-> TypeString("null")],
                   [properties |-> [x |-> [const |-> "3"]]]>>],
      [type |-> TypeString("integer"), minimum |-> "s1"],
      [additionalProperties |-> [type |-> TypeString("string")]] }

ToolShapes ==
    [type : {"function", "retrieval"}, name : {"f"},
     parameters : {<<>>} \cup {<<s>> : s \in ParameterSchemas}]

ToolLists == UNION {[1..n -> ToolShapes] : n \in 1..MaxTools}

\* transformOpenAiToGemini(requestBody, ...), step 2: 1819-1854
TransformTools ==
    /\ toolsAtCall = <<>>
    /\ toolsAtCall' = <<requestTools>>
    /\ functionDeclarations' =
          <<[i \in 1..Len(FunctionTools(requestTools)) |->
                Declaration(FunctionTools(requestTools)[i])]>>
    /\ requestTools' = [i \in 1..Len(requestTools) |-> ToolAfter(requestTools[i])]
    /\ UNCHANGED <<sanitized, toolsFrame>>

\* a caller hands the parameters of its first tool to sanitizeToolParameters
SanitizeSchema ==
    /\ toolsAtCall = <<>>
    /\ requestTools[1].parameters # <<>>
    /\ toolsAtCall' = <<requestTools>>
    /\ sanitized' = <<sanitizeHeld(Held(requestTools[1].parameters[1], "input")).val>>
    /\ requestTools' =
          [requestTools EXCEPT ![1].parameters =
              <<After(Held(requestTools[1].parameters[1], "input"),
                      sanitizeHeld(Held(requestTools[1].parameters[1], "input")))>>]
    /\ UNCHANGED <<functionDeclarations, toolsFrame>>

ToolsInit ==
    /\ ResInit
    /\ KeepAliveIdle
    /\ StreamIdle
    /\ RequestIdle
    /\ TranslatorIdle
    /\ SchemaIdle
    /\ ResponseIdle
    /\ NamesIdle
    /\ EmbeddedIdle
    /\ DocumentIdle
    /\ DbIdle
    /\ upstreamOpen = FALSE
    /\ requestTools \in ToolLists
    /\ toolsAtCall = <<>>
    /\ functionDeclarations = <<>>
    /\ sanitized = <<>>

ToolsNext == TransformTools \/ SanitizeSchema

SpecTools == ToolsInit /\ [][ToolsNext]_vars

(***************************************************************************)
(* C34  Neither transformOpenAiToGemini nor sanitizeToolParameters changes *)
(* what it is given: after the call the tools of the request, with every   *)
(* tool's parameters, are what they were when the call was made.           *)
(***************************************************************************)
C34_InputNotMutated ==
    (toolsAtCall # <<>>) => requestTools = toolsAtCall[1]

\* a schema that the sanitizer rewrites has been sanitized, by the request
\* translator or directly, and the result differs from the schema
C34_Witness ==
    /\ toolsAtCall # <<>>
    /\ requestTools[1].type = "function"
    /\ requestTools[1].parameters =
          <<Put([type |-> TypeString("object"),
                 properties |-> [x |-> [const |-> "3"]]], "$schema", "u")>>
    /\ \/ /\ functionDeclarations # <<>>
          /\ functionDeclarations[1][1].parameters =
                <<[type |-> TypeString("object"),
                   properties |-> [x |-> [enum |-> <<"3">>]]]>>
       \/ /\ sanitized =
                <<[type |-> TypeString("object"),
                   properties |-> [x |-> [enum |-> <<"3">>]]]>>

(***************************************************************************)
(* The database service, apiV1.js 1143-1352, on one connection             *)
(*                                                                         *)
(* A call is [fn, row].  Every writer but setSetting hands its callback to *)
(* serializeDb; setSetting runs its statements in its own call.  A step of *)
(* a call is one awaited runDb (1392-1405).  The engine is SQLite, as the  *)
(* code's test for SQLITE_CONSTRAINT (1302) says: BEGIN inside an open     *)
(* transaction fails, COMMIT and ROLLBACK without an open transaction      *)
(* fail, and a statement outside a transaction is committed at once.       *)
(***************************************************************************)
MaxCalls == 2

DbFunctions ==
    {"setSetting", "setModelConfig", "deleteModelConfig", "setCategoryQuotas",
     "setGitHubConfig", "addWorkerKey", "updateWorkerKeySafety",
     "deleteWorkerKey"}

\* the writers that throw their "... not found." error when no row changed
MustExist == {"deleteModelConfig", "updateWorkerKeySafety", "deleteWorkerKey"}

Serialized(fn) == fn # "setSetting"

Rows == {"r1"}

DbCallLists == UNION {[1..n -> [fn : DbFunctions, row : Rows]] : n \in 1..MaxCalls}

\* worker_keys holds <<api_key, safety_enabled>>; a new key has safety on
InitialTables ==
    [models : SUBSET Rows, keys : SUBSET (Rows \X {TRUE}), settings : {{}}]

\* the statement of a writer on the tables T: whether it succeeds, how many
\* rows it changes, the tables after it
Write(call, T) ==
    CASE call.fn = "setModelConfig" ->
            [ok |-> TRUE, changes |-> 1,
             tables |-> [T EXCEPT !.models = @ \cup {call.row}]]
      [] call.fn = "deleteModelConfig" ->
            [ok |-> TRUE, changes |-> IF call.row \in T.models THEN 1 ELSE 0,
             tables |-> [T EXCEPT !.models = @ \ {call.row}]]
      [] call.fn = "addWorkerKey" ->
            IF \E k \in T.keys : k[1] = call.row
            THEN [ok |-> FALSE, changes |-> 0, tables |-> T]
            ELSE [ok |-> TRUE, changes |-> 1,
                  tables |-> [T EXCEPT !.keys = @ \cup {<<call.row, TRUE>>}]]
      [] call.fn = "updateWorkerKeySafety" ->
            [ok |-> TRUE,
             changes |-> IF \E k \in T.keys : k[1] = call.row THEN 1 ELSE 0,
             tables |-> [T EXCEPT !.keys =
                            {IF k[1] = call.row THEN <<k[1], FALSE>> ELSE k :
                                k \in @}]]
      [] call.fn = "deleteWorkerKey" ->
            [ok |-> TRUE,
             changes |-> IF \E k \in T.keys : k[1] = call.row THEN 1 ELSE 0,
             tables |-> [T EXCEPT !.keys = {k \in @ : k[1] # call.row}]]
      [] OTHER ->
            [ok |-> TRUE, changes |-> 1,
             tables |-> [T EXCEPT !.settings = @ \cup {call.fn}]]

\* whether the engine accepts a transaction statement now
SqlOk(sql) == IF sql = "BEGIN" THEN tx = 0 ELSE tx # 0

\* runDb('BEGIN TRANSACTION' | 'COMMIT' | 'ROLLBACK') by call i, 1157-1159
RunTx(i, sql) ==
    /\ sqlLog' = Append(sqlLog, [call |-> i, sql |-> sql, ok |-> SqlOk(sql),
                                 open |-> tx, changes |-> 0])
    /\ tx' = IF ~SqlOk(sql) THEN tx ELSE IF sql = "BEGIN" THEN i ELSE 0
    /\ snapshot' = IF ~SqlOk(sql) THEN snapshot
                   ELSE IF sql = "BEGIN" THEN <<tables>> ELSE <<>>
    /\ tables' = IF SqlOk(sql) /\ sql = "ROLLBACK" THEN snapshot[1] ELSE tables

Settled(i) == dpc[i] \in {"settled", "skipped"}

\* the call whose promise is dbOperationQueue when call i is made: the last
\* serialized call before it, 0 for the initial Promise.resolve()
Pred(i) ==
    IF \E j \in 1..(i - 1) : Serialized(dbCalls[j].fn)
    THEN CHOOSE j \in 1..(i - 1) :
            /\ Serialized(dbCalls[j].fn)
            /\ \A k \in (j + 1)..(i - 1) : ~Serialized(dbCalls[k].fn)
    ELSE 0

\* mutant of QueueFulfilled: the callback does not wait for the queue
QueueFulfilled_NoWait(i) == TRUE

\* dbOperationQueue.then(...): the promise before call i has fulfilled
QueueFulfilled(i) ==
    IF Pred(i) = 0 THEN TRUE
    ELSE Settled(Pred(i)) /\ outcome[Pred(i)] = "fulfilled"

\* the promise before call i has rejected: .then has no rejection handler
QueueRejected(i) ==
    IF Pred(i) = 0 THEN FALSE
    ELSE Settled(Pred(i)) /\ outcome[Pred(i)] # "fulfilled"

\* a writer is called.  A serialized writer appends its callback to the
\* queue (1145-1154); setSetting calls startTx at once (1180)
DbInvoke ==
    /\ invoked < Len(dbCalls)
    /\ invoked' = invoked + 1
    /\ IF Serialized(dbCalls[invoked + 1].fn)
       THEN /\ dpc' = [dpc EXCEPT ![invoked + 1] = "queued"]
            /\ UNCHANGED <<outcome, tables, tx, snapshot, sqlLog>>
       ELSE /\ RunTx(invoked + 1, "BEGIN")
            /\ dpc' = [dpc EXCEPT ![invoked + 1] =
                          IF SqlOk("BEGIN") THEN "statement" ELSE "settled"]
            /\ outcome' = [outcome EXCEPT ![invoked + 1] =
                              IF SqlOk("BEGIN") THEN @ ELSE "SQLITE_ERROR"]
    /\ UNCHANGED <<dbCalls, dbFrame>>

\* the queue reaches the callback: await startTx(), outside the try block
DbStart ==
    \E i \in 1..invoked :
        /\ dpc[i] = "queued"
        /\ QueueFulfilled(i)
        /\ RunTx(i, "BEGIN")
        /\ dpc' = [dpc EXCEPT ![i] = IF SqlOk("BEGIN") THEN "statement"
                                     ELSE "settled"]
        /\ outcome' = [outcome EXCEPT ![i] =
                          IF SqlOk("BEGIN") THEN @ ELSE "SQLITE_ERROR"]
        /\ UNCHANGED <<dbCalls, invoked, dbFrame>>

\* the promise before the callback has rejected: the callback is not run
\* and the promise of this call rejects with the same error
DbSkip ==
    \E i \in 1..invoked :
        /\ dpc[i] = "queued"
        /\ QueueRejected(i)
        /\ dpc' = [dpc EXCEPT ![i] = "skipped"]
        /\ outcome' = [outcome EXCEPT ![i] = outcome[Pred(i)]]
        /\ UNCHANGED <<dbCalls, invoked, tables, tx, snapshot, sqlLog, dbFrame>>

\* the writer's own statement, first in its try block
DbStatement ==
    \E i \in 1..invoked :
        /\ dpc[i] = "statement"
        /\ sqlLog' = Append(sqlLog, [call |-> i, sql |-> "WRITE",
                                     ok |-> Write(dbCalls[i], tables).ok,
                                     open |-> tx,
                                     changes |-> Write(dbCalls[i], tables).changes])
        /\ tables' = Write(dbCalls[i], tables).tables
        /\ dpc' = [dpc EXCEPT ![i] =
                      IF ~Write(dbCalls[i], tables).ok THEN "catch"
                      ELSE IF dbCalls[i].fn \in MustExist
                              /\ Write(dbCalls[i], tables).changes = 0
                      THEN "notFound"
                      ELSE "commit"]
        /\ outcome' = [outcome EXCEPT ![i] =
                          IF ~Write(dbCalls[i], tables).ok
                          THEN "already exists" ELSE @]
        /\ UNCHANGED <<dbCalls, invoked, tx, snapshot, dbFrame>>

\* if (result.changes === 0) { await rollbackTx(); throw new Error(...) }
DbRollbackNotFound ==
    \E i \in 1..invoked :
        /\ dpc[i] = "notFound"
        /\ RunTx(i, "ROLLBACK")
        /\ dpc' = [dpc EXCEPT ![i] = "catch"]
        /\ outcome' = [outcome EXCEPT ![i] =
                          IF SqlOk("ROLLBACK") THEN "not found"
                          ELSE "SQLITE_ERROR"]
        /\ UNCHANGED <<dbCalls, invoked, dbFrame>>

\* await commitTx()
DbCommit ==
    \E i \in 1..invoked :
        /\ dpc[i] = "commit"
        /\ RunTx(i, "COMMIT")
        /\ dpc' = [dpc EXCEPT ![i] = IF SqlOk("COMMIT") THEN "sync" ELSE "catch"]
        /\ outcome' = [outcome EXCEPT ![i] =
                          IF SqlOk("COMMIT") THEN @ ELSE "SQLITE_ERROR"]
        /\ UNCHANGED <<dbCalls, invoked, dbFrame>>

\* try { await dbModule.syncToGitHub() } catch { log }: the call fulfils
DbSync ==
    \E i \in 1..invoked :
        /\ dpc[i] = "sync"
        /\ dpc' = [dpc EXCEPT ![i] = "settled"]
        /\ outcome' = [outcome EXCEPT ![i] = "fulfilled"]
        /\ UNCHANGED <<dbCalls, invoked, tables, tx, snapshot, sqlLog, dbFrame>>

\* catch (error) { await rollbackTx(); throw error; }
DbRollbackCatch ==
    \E i \in 1..invoked :
        /\ dpc[i] = "catch"
        /\ RunTx(i, "ROLLBACK")
        /\ dpc' = [dpc EXCEPT ![i] = "settled"]
        /\ outcome' = [outcome EXCEPT ![i] =
                          IF SqlOk("ROLLBACK") THEN @ ELSE "SQLITE_ERROR"]
        /\ UNCHANGED <<dbCalls, invoked, dbFrame>>

DbInit ==
    /\ ResInit
    /\ KeepAliveIdle
    /\ StreamIdle
    /\ RequestIdle
    /\ TranslatorIdle
    /\ SchemaIdle
    /\ ResponseIdle
    /\ NamesIdle
    /\ EmbeddedIdle
    /\ DocumentIdle
    /\ ToolsIdle
    /\ upstreamOpen = FALSE
    /\ dbCalls \in DbCallLists
    /\ invoked = 0
    /\ dpc = [i \in 1..Len(dbCalls) |-> "new"]
    /\ outcome = [i \in 1..Len(dbCalls) |-> "pending"]
    /\ tables \in InitialTables
    /\ tx = 0
    /\ snapshot = <<>>
    /\ sqlLog = <<>>

DbNext ==
    \/ DbInvoke
    \/ DbStart
    \/ DbSkip
    \/ DbStatement
    \/ DbRollbackNotFound
    \/ DbCommit
    \/ DbSync
    \/ DbRollbackCatch

SpecDb == DbInit /\ [][DbNext]_vars

\* the callback of call i has been entered
CallbackStarted(i) == dpc[i] \notin {"new", "queued", "skipped"}

\* the positions of sqlLog where a serialized callback issued its BEGIN
QueueBegins ==
    {n \in 1..Len(sqlLog) :
        sqlLog[n].sql = "BEGIN" /\ Serialized(dbCalls[sqlLog[n].call].fn)}

\* C35: callbacks passed to serializeDb never overlap: a callback has
\* started only when every callback enqueued before it has settled, and
\* the callbacks start in the order in which serializeDb was called.
C35_CallbacksInOrder ==
    /\ \A i, j \in 1..invoked :
          (/\ i < j
           /\ Serialized(dbCalls[i].fn)
           /\ Serialized(dbCalls[j].fn)
           /\ CallbackStarted(j)) => Settled(i)
    /\ \A a, b \in QueueBegins : a < b => sqlLog[a].call < sqlLog[b].call

\* two callbacks were enqueued and the second has run after the first
C35_Witness ==
    /\ Len(dbCalls) = 2
    /\ Serialized(dbCalls[1].fn)
    /\ Serialized(dbCalls[2].fn)
    /\ dpc[1] = "settled"
    /\ dpc[2] = "settled"
    /\ Cardinality(QueueBegins) = 2

\* the promise of call i has rejected
Rejected(i) == Settled(i) /\ outcome[i] # "fulfilled"

\* C36: a serialized operation that fails does not stop the queue: every
\* callback enqueued after a rejected one is still executed and its promise
\* settles with its own result.
C36_QueueSurvivesFailure ==
    \A i, j \in 1..invoked :
        (/\ i < j
         /\ Serialized(dbCalls[i].fn)
         /\ Serialized(dbCalls[j].fn)
         /\ Rejected(i)
         /\ Settled(j)) => CallbackStarted(j)

\* deleteModelConfig of a missing row, then setModelConfig: the second
\* callback never ran, no row was written, and its promise carries the
\* first call's error
C36_LaterCallbackSkipped ==
    /\ Len(dbCalls) = 2
    /\ dbCalls[1].fn = "deleteModelConfig"
    /\ dbCalls[2].fn = "setModelConfig"
    /\ dpc[2] = "skipped"
    /\ outcome[2] = outcome[1]
    /\ dbCalls[2].row \notin tables.models
    /\ \A n \in 1..Len(sqlLog) : sqlLog[n].call # 2

\* call i ran its statement and no row changed
NoRowChanged(i) ==
    /\ dbCalls[i].fn \in MustExist
    /\ \E n \in 1..Len(sqlLog) :
          /\ sqlLog[n].call = i
          /\ sqlLog[n].sql = "WRITE"
          /\ sqlLog[n].changes = 0

\* the statements sql that call i has issued
Issued(i, sql) ==
    {n \in 1..Len(sqlLog) : sqlLog[n].call = i /\ sqlLog[n].sql = sql}

\* C37: deleteModelConfig, updateWorkerKeySafety and deleteWorkerKey for a
\* row that does not exist reject with their "... not found." error, issue
\* exactly one ROLLBACK for the one BEGIN they opened, and leave the tables
\* unchanged with no transaction open.
C37_NotFoundRollsBackOnce ==
    \A i \in 1..invoked :
        (Len(dbCalls) = 1 /\ NoRowChanged(i) /\ Settled(i)) =>
            /\ outcome[i] = "not found"
            /\ Cardinality(Issued(i, "BEGIN")) = 1
            /\ Cardinality(Issued(i, "ROLLBACK")) = 1
            /\ Write(dbCalls[i], tables).changes = 0
            /\ tx = 0

\* the single call found no row: two ROLLBACKs went to the engine, the
\* second one failed, and the rejection carries the engine's error
C37_SecondRollback ==
    /\ Len(dbCalls) = 1
    /\ NoRowChanged(1)
    /\ Settled(1)
    /\ Cardinality(Issued(1, "ROLLBACK")) = 2
    /\ \E n \in Issued(1, "ROLLBACK") : ~sqlLog[n].ok
    /\ outcome[1] = "SQLITE_ERROR"
    /\ tx = 0

\* C38: transactions on the shared connection never nest: no BEGIN
\* TRANSACTION is issued while a transaction opened by another call is
\* neither committed nor rolled back.
C38_TransactionsNeverNest ==
    \A n \in 1..Len(sqlLog) :
        sqlLog[n].sql = "BEGIN" => sqlLog[n].open \in {0, sqlLog[n].call}

\* setSetting issued its BEGIN inside a serialized writer's transaction
C38_SetSettingInsideTransaction ==
    \E n \in 1..Len(sqlLog) :
        /\ sqlLog[n].sql = "BEGIN"
        /\ dbCalls[sqlLog[n].call].fn = "setSetting"
        /\ sqlLog[n].open \notin {0, sqlLog[n].call}
        /\ Serialized(dbCalls[sqlLog[n].open].fn)

\* among the writers that go through serializeDb alone no BEGIN is issued
\* inside another call's transaction
C38_SerializedNeverNest ==
    (\A i \in 1..Len(dbCalls) : Serialized(dbCalls[i].fn)) =>
        \A n \in 1..Len(sqlLog) : sqlLog[n].sql = "BEGIN" => sqlLog[n].open = 0

\* C39: for every sequence of startHeartbeat and stopHeartbeat calls and
\* connection events, once cleanup has run no interval created by
\* startHeartbeat remains armed.
C39_NoIntervalAfterCleanup == isConnectionClosed => armedTimers = {}

\* startHeartbeat ran twice before cleanup: the first interval is still
\* armed although cleanup has run and the timer id is null
C39_LeakedInterval ==
    /\ isConnectionClosed
    /\ keepAliveTimerId = 0
    /\ nextTimerId = 3
    /\ armedTimers = {1}

\* with at most one startHeartbeat call, and for the interval of the last
\* call in general, cleanup leaves nothing armed
C39_LastIntervalCleared ==
    isConnectionClosed =>
        /\ keepAliveTimerId = 0
        /\ (nextTimerId - 1) \notin armedTimers
        /\ nextTimerId <= 2 => armedTimers = {}

====
